---- MODULE Spec2Model ----
(***************************************************************************)
(* TFTMC043 / ER5517 display-controller driver (src/src/lib.rs,            *)
(* src/src/er5517.rs) as a state machine at bus-frame granularity.         *)
(*                                                                         *)
(* A driver operation is started by a Call* action, which computes the     *)
(* list of bus instructions the Rust function goes through (prog), and is  *)
(* carried on by Step, which executes the head instruction as one          *)
(* chip-select-scoped transaction (with_select) against the chip model.    *)
(* Every transaction can fail in each way the Error type allows.           *)
(***************************************************************************)
EXTENDS Integers, Sequences, FiniteSets

VARIABLES
    color_mode,  \* TFTMC043.color_mode, the mode recorded on the handle
    wrap,        \* who owns the handle: "none", "Draw16", "Draw24", "dropped"
    cs,          \* level of the chip-select line: "high" / "low"
    regs,        \* chip: contents of its read/write configuration registers
    sel,         \* chip: register address selected by the last command frame
    op,          \* the driver operation in progress or last finished
    prog,        \* the bus instructions the operation still has to execute
    v,           \* the driver's local holding the byte a data/status read returned
    rx,          \* the 2-byte buffer of the read just made (<<0, 0>> otherwise)
    res,         \* "run", or the operation's result: "Ok", "Pin", "SPI", "panic"
    trace,       \* frames put on the bus by the operation, in order
    txn,         \* pin/bus events of the last transaction, in order
    busy,        \* not-ready answers the chip has given in this operation
    naps,        \* the operation's delay_ms calls: <<frames sent before it, ms>>
    peer         \* a second accessor of the same chip and the operation it runs

vars ==
    <<color_mode, wrap, cs, regs, sel, op, prog, v, rx, res, trace, txn, busy, naps,
      peer>>

----------------------------------------------------------------------------
\* Bounds of the model.

\* The chip answers "not ready" at most MaxBusy times within one operation.
MaxBusy == 1

----------------------------------------------------------------------------
\* Program constants.

WIDTH == 480
HEIGHT == 272
LCD_HBPD == 140
LCD_HFPD == 160
LCD_HSPW == 20
LCD_VBPD == 20
LCD_VFPD == 12
LCD_VSPW == 3

\* The four tag bytes of the wire protocol.
TagCmd == 0
TagData == 128
TagStatus == 64
TagRead == 192

Modes == {"EightBit", "SixteenBit", "TwentyFourBit"}

----------------------------------------------------------------------------
\* u8 / u16 arithmetic.

RECURSIVE BitAnd(_, _)
BitAnd(a, b) ==
    IF a = 0 \/ b = 0 THEN 0
    ELSE (a % 2) * (b % 2) + 2 * BitAnd(a \div 2, b \div 2)

RECURSIVE BitOr(_, _)
BitOr(a, b) ==
    IF a = 0 THEN b
    ELSE IF b = 0 THEN a
    ELSE (IF a % 2 = 1 \/ b % 2 = 1 THEN 1 ELSE 0) + 2 * BitOr(a \div 2, b \div 2)

\* !m on a u8
BitNot(m) == 255 - m

\* x as u8
AsU8(x) == x % 256

\* (x >> 8) as u8
HiU8(x) == (x \div 256) % 256

\* x << n on a u8: the bits shifted out of the byte are lost
Shl8(x, n) == (x * (2 ^ n)) % 256

\* x >> n
Shr(x, n) == x \div (2 ^ n)

----------------------------------------------------------------------------
\* The environment: the chip and the two lines the driver drives.

\* Registers the driver reads back and rewrites (read-modify-write targets);
\* the chip model stores these and answers a data read with what was last
\* written: 0x02, 0x03, 0x10, 0x12, 0x13, 0x5E, 0x85, 0x86.
StoredRegs == {2, 3, 16, 18, 19, 94, 133, 134}

\* Power-on contents of the stored registers.
ResetVals == {0, 255}

\* What a data read of any other register (0x01 holds the self-check ready
\* flag in bit 0x80) can answer.
ReadVals == {127, 128}

\* What a status read can answer: bits 0x02 reset busy, 0x04 SDRAM ready,
\* 0x08 draw busy, 0x80 FIFO full, and 0x50 (none of the four).
StatusVals == {0, 4, 10, 128, 80, 255}

\* First byte clocked in during a full-duplex transfer (while the tag goes out).
Garbage == {0, 255}

\* How one transaction can go: whether cs.set_low() succeeds, whether the bus
\* transfer succeeds, whether cs.set_high() succeeds, and whether the frame of a
\* failed transfer still reached the chip.
FaultCases ==
    { [low |-> TRUE,  bus |-> TRUE,  high |-> TRUE,  lands |-> TRUE],
      [low |-> FALSE, bus |-> TRUE,  high |-> TRUE,  lands |-> FALSE],
      [low |-> TRUE,  bus |-> FALSE, high |-> TRUE,  lands |-> FALSE],
      [low |-> TRUE,  bus |-> FALSE, high |-> TRUE,  lands |-> TRUE],
      [low |-> TRUE,  bus |-> TRUE,  high |-> FALSE, lands |-> TRUE],
      [low |-> TRUE,  bus |-> FALSE, high |-> FALSE, lands |-> FALSE] }

----------------------------------------------------------------------------
\* Transport (lib.rs 83-106, er5517.rs 60-83).

\* with_select: set_low()?; r = f(spi); set_high()?; Ok(r).
\* A drive that fails leaves the line at the level it had.
with_select_early_return(level, f) ==
    IF ~f.low THEN
        [pin |-> FALSE, ran |-> FALSE, r |-> FALSE, cs |-> level,
         ev |-> <<"set_low_err">>]
    ELSE IF ~f.bus THEN
        [pin |-> TRUE, ran |-> TRUE, r |-> FALSE, cs |-> "low",
         ev |-> <<"set_low", "xfer_err">>]
    ELSE IF ~f.high THEN
        [pin |-> FALSE, ran |-> TRUE, r |-> f.bus, cs |-> "low",
         ev |-> <<"set_low", "xfer", "set_high_err">>]
    ELSE
        [pin |-> TRUE, ran |-> TRUE, r |-> f.bus, cs |-> "high",
         ev |-> <<"set_low", "xfer", "set_high">>]

with_select(level, f) ==
    IF ~f.low THEN
        [pin |-> FALSE, ran |-> FALSE, r |-> FALSE, cs |-> level,
         ev |-> <<"set_low_err">>]
    ELSE IF ~f.high THEN
        [pin |-> FALSE, ran |-> TRUE, r |-> f.bus, cs |-> "low",
         ev |-> <<"set_low", IF f.bus THEN "xfer" ELSE "xfer_err", "set_high_err">>]
    ELSE
        [pin |-> TRUE, ran |-> TRUE, r |-> f.bus, cs |-> "high",
         ev |-> <<"set_low", IF f.bus THEN "xfer" ELSE "xfer_err", "set_high">>]

\* write / read: let r = self.with_select(..)?; r.map_err(Error::SPI)
\* Both have the same shape; the closure is spi.write or spi.transfer.
transact_swallow_bus_error(level, f) ==
    LET w == with_select(level, f)
    IN  [ret |-> IF ~w.pin THEN "Pin" ELSE "Ok",
         ran |-> w.ran, cs |-> w.cs, ev |-> w.ev]

transact_bus_fault_first(level, f) ==
    LET w == with_select(level, f)
    IN  [ret |-> IF w.ran /\ ~w.r THEN "SPI" ELSE IF ~w.pin THEN "Pin" ELSE "Ok",
         ran |-> w.ran, cs |-> w.cs, ev |-> w.ev]

transact(level, f) ==
    LET w == with_select(level, f)
    IN  [ret |-> IF ~w.pin THEN "Pin" ELSE IF ~w.r THEN "SPI" ELSE "Ok",
         ran |-> w.ran, cs |-> w.cs, ev |-> w.ev]

\* status_read / data_read: Ok(v[1]) -- the second byte of the buffer (1-based
\* index 2 here).
Returned_first(buf) == buf[1]

Returned(buf) == buf[2]

----------------------------------------------------------------------------
\* Bus instructions: what a driver function does next on the bus.
\*   cmd    cmd_write(a)                       frame [0x00, a]
\*   data   data_write(a)                      frame [0x80, a]
\*   read   v = data_read()?                   frame [0xC0, 0x00]
\*   wmod   data_write(((v | a) & !b) | c)     frame [0x80, ..]
\*   sread  v = status_read()?                 frame [0x40, 0x00]
\*   poll   while status_read()? & a (!= 0 if b = 1, == 0 if b = 0) {}
\*   tstat, tread   the two reads of system_check_temp's loop
\*   setmode  self.color_mode = m              (no frame)
\*   wrap     Ok(Self { inner })               (no frame)

Ins(k, a, b, c, m) == [k |-> k, a |-> a, b |-> b, c |-> c, m |-> m]

Cmd(a) == Ins("cmd", a, 0, 0, "")
Data(d) == Ins("data", d, 0, 0, "")
Read == Ins("read", 0, 0, 0, "")
WMod(a, b, c) == Ins("wmod", a, b, c, "")
SRead == Ins("sread", 0, 0, 0, "")
Poll(mask, whileSet) == Ins("poll", mask, whileSet, 0, "")
SetMode(m) == Ins("setmode", 0, 0, 0, m)
Delay(ms) == Ins("delay", ms, 0, 0, "")

IsRead(i) == i.k \in {"read", "sread", "poll", "tstat", "tread"}
IsStatus(i) == i.k \in {"sread", "poll", "tstat"}
IsFrame(i) == i.k \notin {"setmode", "wrap", "delay"}

\* Reads whose result is bound to a local (let v = ..data_read()?..); the waits
\* only test the byte they read.
AssignsLocal(i) == i.k \in {"read", "sread"}

\* The 2-byte frame an instruction puts on the bus; val is the local v.
FrameOf(i, val) ==
    CASE i.k = "cmd" -> <<TagCmd, i.a>>
      [] i.k = "data" -> <<TagData, i.a>>
      [] i.k = "wmod" ->
            <<TagData, BitOr(BitAnd(BitOr(val, i.a), BitNot(i.b)), i.c)>>
      [] i.k = "read" -> <<TagRead, 0>>
      [] i.k = "tread" -> <<TagRead, 0>>
      [] OTHER -> <<TagStatus, 0>>

----------------------------------------------------------------------------
\* Register access (lib.rs 100-161, er5517.rs 77-134).

\* register_write: self.cmd_write(cmd)?; self.data_write(data)
register_write_swapped(cmd, data) == <<Data(data), Cmd(cmd)>>

register_write(cmd, data) == <<Cmd(cmd), Data(data)>>

\* status_read: d = [0x40, 0x00]; v = self.read(&mut d)?; Ok(v[1])
status_read == <<SRead>>

\* data_read: d = [0xc0, 0x00]; v = self.read(&mut d)?; Ok(v[1])
data_read == <<Read>>

\* color_bars: cmd_write(0x12)?; s = data_read()?;
\*             s = if on { s | mask } else { s & !mask }; data_write(s)
color_bars_overwrite(b) == <<Cmd(18), Read, Data(IF b THEN 32 ELSE 0)>>

color_bars(b) == <<Cmd(18), Read, IF b THEN WMod(32, 0, 0) ELSE WMod(0, 32, 0)>>

\* on: the same with mask 0b0100_0000
on_in_select_register(b) == <<Cmd(16), Read, IF b THEN WMod(64, 0, 0) ELSE WMod(0, 64, 0)>>

on_overwrite(b) == <<Cmd(18), Read, Data(IF b THEN 64 ELSE 0)>>

on(b) == <<Cmd(18), Read, IF b THEN WMod(64, 0, 0) ELSE WMod(0, 64, 0)>>

\* The 2-bit field value of a mode in register 0x10 (bits 3..2).
MainWindowBits(mode) ==
    CASE mode = "EightBit" -> 0
      [] mode = "SixteenBit" -> 4
      [] mode = "TwentyFourBit" -> 8

\* The 2-bit field value of a mode in register 0x5E (bits 1..0).
MemoryBits_as_main_window(mode) ==
    CASE mode = "EightBit" -> 0
      [] mode = "SixteenBit" -> 4
      [] mode = "TwentyFourBit" -> 8

MemoryBits(mode) ==
    CASE mode = "EightBit" -> 0
      [] mode = "SixteenBit" -> 1
      [] mode = "TwentyFourBit" -> 2

\* select_main_window_color_mode: cmd_write(0x10)?;
\*   v = (data_read()? & !0b1100) | match mode {..}; data_write(v)
select_main_window_color_mode(mode) ==
    <<Cmd(16), Read, WMod(0, 12, MainWindowBits(mode))>>

\* memory_color_mode: cmd_write(0x5e)?;
\*   v = (data_read()? & !0b0011) | match mode {..}; data_write(v)?
memory_color_mode(mode) ==
    <<Cmd(94), Read, WMod(0, 3, MemoryBits(mode))>>

----------------------------------------------------------------------------
\* Executing one instruction as one transaction.

\* What the chip can put in the second byte of its answer to a read.
ChipAnswers(i) ==
    IF IsStatus(i) THEN StatusVals
    ELSE IF IsRead(i) THEN (IF sel \in StoredRegs THEN {regs[sel]} ELSE ReadVals)
    ELSE {0}

\* Whether a read value keeps a wait looping (the chip is not ready yet).
\*   busy_draw               while status_read()? & 0x08 != 0 {}
\*   check_mem_wr_fifo_ready while status_read()? & 0x80 != 0 {}
\*   sdram_check_ready       while status_read()? & 0x04 == 0 {}
\*   system_check_temp       if status & 0x02 == 0 { .. if data & 0x80 == 0x80 { return } .. }
NotReady(i, val) ==
    CASE i.k = "poll" ->
            IF i.b = 1 THEN BitAnd(val, i.a) # 0 ELSE BitAnd(val, i.a) = 0
      [] i.k = "tstat" -> BitAnd(val, 2) # 0
      [] i.k = "tread" -> BitAnd(val, 128) # 128
      [] OTHER -> FALSE

\* The instructions left after instruction i completed with read value val.
After(i, val, rest) ==
    CASE i.k = "poll" -> IF NotReady(i, val) THEN <<i>> \o rest ELSE rest
      [] i.k = "tstat" ->
            IF NotReady(i, val) THEN <<i>> \o rest
            ELSE <<Delay(2), Cmd(1), Delay(2), Ins("tread", 0, 0, 0, "")>> \o rest
      [] i.k = "tread" ->
            IF NotReady(i, val)
            THEN <<Delay(2), Cmd(1), Delay(2), Data(128), Ins("tstat", 0, 0, 0, "")>> \o rest
            ELSE rest
      [] OTHER -> rest

\* Assignments that follow the last frame of a function without touching the
\* bus are part of the same step.
\* delay.delay_ms(ms) between two frames: the instructions left once the
\* delays at the head of p have elapsed, and the record of those delays.
RECURSIVE DropDelays(_)
DropDelays(p) ==
    IF p # <<>> /\ Head(p).k = "delay" THEN DropDelays(Tail(p)) ELSE p

RECURSIVE NapsAfter(_, _, _)
NapsAfter(p, n, at) ==
    IF p # <<>> /\ Head(p).k = "delay"
    THEN NapsAfter(Tail(p), Append(n, <<at, Head(p).a>>), at)
    ELSE n

ModeAfter(p, cm) == IF p # <<>> /\ Head(p).k = "setmode" THEN Head(p).m ELSE cm

DropSetMode(p) == IF p # <<>> /\ Head(p).k = "setmode" THEN Tail(p) ELSE p

WrapAfter(p, w) ==
    LET q == DropSetMode(p)
    IN  IF q # <<>> /\ Head(q).k = "wrap" THEN Head(q).m ELSE w

Strip(p) ==
    LET q == DropSetMode(p)
    IN  IF q # <<>> /\ Head(q).k = "wrap" THEN Tail(q) ELSE q

\* The chip's side of a frame that reached it.
SelAfter(tx) == IF tx[1] = TagCmd THEN tx[2] ELSE sel

RegsAfter(tx) ==
    IF tx[1] = TagData /\ sel \in StoredRegs
    THEN [regs EXCEPT ![sel] = tx[2]]
    ELSE regs

\* TFTMC043Draw16Bit::new / TFTMC043Draw24Bit::new take the handle by value:
\* when they return Err the handle is dropped with it.
ConsumesHandle(name) == name \in {"Draw16Bit_new", "Draw24Bit_new"}

\* No second accessor: the handle owns the bus and the chip-select line.
NoPeer == [name |-> "none", arg |-> <<>>, prog |-> <<>>, v |-> 0, res |-> "Ok", at |-> <<>>]

StepWith(cases) ==
    /\ res = "run"
    /\ LET i == Head(prog)
       IN  \E f \in cases, e \in ChipAnswers(i),
              g \in (IF IsRead(i) THEN Garbage ELSE {0}) :
             LET tx == FrameOf(i, v)
                 t == transact(cs, f)
                 ok == t.ret = "Ok"
                 lands == t.ran /\ (f.bus \/ f.lands)
                 buf == <<g, e>>
                 val == Returned(buf)
                 aft == After(i, val, Tail(prog))
                 nxt == DropDelays(aft)
             IN  /\ naps' = IF ok THEN NapsAfter(aft, naps, Len(trace) + 1) ELSE naps
                 /\ (ok /\ NotReady(i, val)) => busy < MaxBusy
                 /\ cs' = t.cs
                 /\ txn' = t.ev
                 /\ trace' = IF t.ran THEN Append(trace, tx) ELSE trace
                 /\ sel' = IF lands THEN SelAfter(tx) ELSE sel
                 /\ regs' = IF lands THEN RegsAfter(tx) ELSE regs
                 /\ rx' = IF IsRead(i) /\ t.ran /\ f.bus THEN buf ELSE <<0, 0>>
                 /\ v' = IF ok /\ AssignsLocal(i) THEN val ELSE v
                 /\ busy' = IF ok /\ NotReady(i, val) THEN busy + 1 ELSE busy
                 /\ IF ok
                    THEN /\ prog' = Strip(nxt)
                         /\ color_mode' = ModeAfter(nxt, color_mode)
                         /\ wrap' = WrapAfter(nxt, wrap)
                         /\ res' = IF Strip(nxt) = <<>> THEN "Ok" ELSE "run"
                    ELSE /\ prog' = <<>>
                         /\ color_mode' = color_mode
                         /\ wrap' = IF ConsumesHandle(op.name) THEN "dropped" ELSE wrap
                         /\ res' = t.ret
                 /\ UNCHANGED <<op, peer>>

\* One transaction of the running operation, with every way it can go.
Step == StepWith(FaultCases)

\* One transaction in which both lines and the bus work.
NoFault == {[low |-> TRUE, bus |-> TRUE, high |-> TRUE, lands |-> TRUE]}

StepNoFault == StepWith(NoFault)

\* A call of a driver function whose bus instructions are p.  The locals of the
\* previous call (v, the transfer buffer) are gone.
Start(name, arg, p) ==
    /\ res \notin {"run", "panic"}
    /\ op' = [name |-> name, arg |-> arg, mode0 |-> color_mode]
    /\ prog' = Strip(DropDelays(p))
    /\ naps' = NapsAfter(p, <<>>, 0)
    /\ color_mode' = ModeAfter(DropDelays(p), color_mode)
    /\ wrap' = WrapAfter(DropDelays(p), wrap)
    /\ res' = IF Strip(DropDelays(p)) = <<>> THEN "Ok" ELSE "run"
    /\ trace' = <<>>
    /\ busy' = 0
    /\ v' = 0
    /\ rx' = <<0, 0>>
    /\ txn' = <<>>
    /\ UNCHANGED <<cs, regs, sel, peer>>

----------------------------------------------------------------------------
\* Construction: TFTMC043::new(spi, cs, color_mode) stores its arguments; the
\* application drives chip-select high before it (main.rs 88) and the chip is in
\* its power-on state.

Init ==
    /\ color_mode \in Modes
    /\ wrap = "none"
    /\ cs = "high"
    /\ \E b \in ResetVals : regs = [r \in StoredRegs |-> b]
    /\ sel = 0
    /\ op = [name |-> "new", arg |-> <<>>, mode0 |-> color_mode]
    /\ prog = <<>>
    /\ v = 0
    /\ rx = <<0, 0>>
    /\ res = "Ok"
    /\ trace = <<>>
    /\ txn = <<>>
    /\ busy = 0
    /\ naps = <<>>
    /\ peer = NoPeer

----------------------------------------------------------------------------
\* Register-level operations of the handle.

\* Inputs of register_write.
WriteAddrs == {18, 210}
WriteVals == {42, 255}

CallRegisterWrite ==
    /\ wrap = "none"
    /\ \E a \in WriteAddrs, d \in WriteVals :
          Start("register_write", <<a, d>>, register_write(a, d))

CallStatusRead ==
    /\ wrap = "none"
    /\ Start("status_read", <<>>, status_read)

CallDataRead ==
    /\ wrap = "none"
    /\ Start("data_read", <<>>, data_read)

NextReg == CallRegisterWrite \/ CallStatusRead \/ CallDataRead \/ Step

SpecReg == Init /\ [][NextReg]_vars

----------------------------------------------------------------------------
\* Drawing primitives of the handle (lib.rs 226-311, 578-584).

\* fg_color: register_write(0xD2, r)?; register_write(0xD3, g)?; register_write(0xD4, b)?
fg_color(r, g, b) ==
    register_write(210, r) \o register_write(211, g) \o register_write(212, b)

\* line_start: 0x68 = x as u8, 0x69 = (x >> 8) as u8, 0x6a = y as u8, 0x6b = (y >> 8) as u8
line_start(x, y) ==
    register_write(104, AsU8(x)) \o register_write(105, HiU8(x))
        \o register_write(106, AsU8(y)) \o register_write(107, HiU8(y))

\* line_end: the same on 0x6c..0x6f
line_end(x, y) ==
    register_write(108, AsU8(x)) \o register_write(109, HiU8(x))
        \o register_write(110, AsU8(y)) \o register_write(111, HiU8(y))

\* busy_draw: while self.status_read()? & 0x08 != 0 {}
busy_draw_zero_mask == <<Poll(0, 0)>>

busy_draw == <<Poll(8, 1)>>

\* check_mem_wr_fifo_ready: while self.status_read()? & 0x80 != 0 {}
check_mem_wr_fifo_ready == <<Poll(128, 1)>>

\* rect_fill: register_write(0x76, 0xE0)?; busy_draw()
rect_fill_no_wait == register_write(118, 224)

rect_fill == register_write(118, 224) \o busy_draw

\* goto_pixel: 0x5F = x as u8, 0x60 = (x >> 8) as u8, 0x61 = y as u8, 0x62 = (y >> 8) as u8
goto_pixel(x, y) ==
    register_write(95, AsU8(x)) \o register_write(96, HiU8(x))
        \o register_write(97, AsU8(y)) \o register_write(98, HiU8(y))

----------------------------------------------------------------------------
\* Rectangle arithmetic of embedded-graphics-core, which fill_solid calls
\* (lib.rs 661-665, 705-709).  A rectangle is [x, y, w, h]: top-left corner
\* (i32) and size (u32); bottom_right is None (here: <<>>) when a side is 0.

Rect(x, y, w, h) == [x |-> x, y |-> y, w |-> w, h |-> h]

Min(a, b) == IF a <= b THEN a ELSE b
Max(a, b) == IF a >= b THEN a ELSE b

\* Rectangle::bottom_right: Some(top_left + size - (1, 1)) if both sides > 0
bottom_right(r) ==
    IF r.w > 0 /\ r.h > 0 THEN <<[x |-> r.x + r.w - 1, y |-> r.y + r.h - 1]>> ELSE <<>>

\* Rectangle::contains
contains(r, pt) ==
    /\ pt.x >= r.x
    /\ pt.y >= r.y
    /\ bottom_right(r) # <<>>
    /\ pt.x <= bottom_right(r)[1].x
    /\ pt.y <= bottom_right(r)[1].y

\* overlaps(first, second) on inclusive ranges lo..hi
overlaps(lo1, hi1, lo2, hi2) ==
    \/ (lo2 <= lo1 /\ lo1 <= hi2)
    \/ (lo2 <= hi1 /\ hi1 <= hi2)
    \/ (lo1 < lo2 /\ hi1 > hi2)

\* Rectangle::intersection(self, other): the overlap of two non-empty
\* rectangles; a zero-sized self whose corner lies inside other is returned
\* as it is; Rectangle::zero() when there is no overlap.
intersection(self, other) ==
    LET sb == bottom_right(self)
        ob == bottom_right(other)
    IN  IF ob # <<>> /\ sb # <<>> THEN
            IF /\ overlaps(self.x, sb[1].x, other.x, ob[1].x)
               /\ overlaps(self.y, sb[1].y, other.y, ob[1].y)
            THEN Rect(Max(self.x, other.x), Max(self.y, other.y),
                      Min(sb[1].x, ob[1].x) - Max(self.x, other.x) + 1,
                      Min(sb[1].y, ob[1].y) - Max(self.y, other.y) + 1)
            ELSE Rect(0, 0, 0, 0)
        ELSE IF ob # <<>> /\ sb = <<>> THEN
            IF contains(other, [x |-> self.x, y |-> self.y]) THEN self
            ELSE Rect(0, 0, 0, 0)
        ELSE IF ob = <<>> /\ sb # <<>> THEN
            IF contains(self, [x |-> other.x, y |-> other.y]) THEN other
            ELSE Rect(0, 0, 0, 0)
        ELSE Rect(0, 0, 0, 0)

\* OriginDimensions::size is (WIDTH, HEIGHT); bounding_box() is that size at
\* the origin.
bounding_box == Rect(0, 0, WIDTH, HEIGHT)

----------------------------------------------------------------------------
\* The drawing adapters (lib.rs 587-718).

Wrap(kind) == Ins("wrap", 0, 0, 0, kind)

\* set_color_mode: if mode != self.color_mode { memory_color_mode(mode)?;
\*   select_main_window_color_mode(mode)?; self.color_mode = mode; } Ok(())
set_color_mode_window_first(mode, current) ==
    IF mode # current
    THEN select_main_window_color_mode(mode) \o memory_color_mode(mode)
             \o <<SetMode(mode)>>
    ELSE <<>>

set_color_mode_unconditional(mode, current) ==
    memory_color_mode(mode) \o select_main_window_color_mode(mode)
        \o <<SetMode(mode)>>

set_color_mode_records_first(mode, current) ==
    IF mode # current
    THEN <<SetMode(mode)>> \o memory_color_mode(mode)
             \o select_main_window_color_mode(mode)
    ELSE <<>>

set_color_mode(mode, current) ==
    IF mode # current
    THEN memory_color_mode(mode) \o select_main_window_color_mode(mode)
             \o <<SetMode(mode)>>
    ELSE <<>>

Draw16Bit_new_without_mode(current) == <<Wrap("Draw16")>>

\* TFTMC043Draw16Bit::new: inner.set_color_mode(SixteenBit)?; Ok(Self { inner })
Draw16Bit_new(current) == set_color_mode("SixteenBit", current) \o <<Wrap("Draw16")>>

\* TFTMC043Draw24Bit::new: inner.set_color_mode(TwentyFourBit)?; Ok(Self { inner })
Draw24Bit_new(current) == set_color_mode("TwentyFourBit", current) \o <<Wrap("Draw24")>>

\* release: self.inner
release == <<Wrap("none")>>

\* if let Ok((x @ 0..=WIDTH, y @ 0..=HEIGHT)) = coord.try_into():
\* the conversion to (u32, u32) fails on a negative coordinate, and the two
\* range patterns are inclusive at both ends.
pixel_accepted_exclusive(pt) ==
    pt.x >= 0 /\ pt.y >= 0 /\ pt.x < WIDTH /\ pt.y < HEIGHT

pixel_accepted(pt) ==
    pt.x >= 0 /\ pt.y >= 0 /\ pt.x <= WIDTH /\ pt.y <= HEIGHT

\* The bytes of one pixel.
\* 16-bit: [b | (g << 5), (g >> 3) | (r << 3)] on u8 values
pixel_bytes_16_high_first(c) ==
    <<BitOr(Shr(c.g, 3), Shl8(c.r, 3)), BitOr(c.b, Shl8(c.g, 5))>>

pixel_bytes_16(c) ==
    <<BitOr(c.b, Shl8(c.g, 5)), BitOr(Shr(c.g, 3), Shl8(c.r, 3))>>

pixel_bytes_24_rgb(c) == <<c.r, c.g, c.b>>

\* 24-bit: [color.b(), color.g(), color.r()]
pixel_bytes_24(c) == <<c.b, c.g, c.r>>

\* for v in bytes { data_write(v)?; check_mem_wr_fifo_ready()?; }
RECURSIVE write_bytes(_)
write_bytes(bytes) ==
    IF bytes = <<>> THEN <<>>
    ELSE <<Data(Head(bytes))>> \o check_mem_wr_fifo_ready \o write_bytes(Tail(bytes))

\* The body of the for loop of draw_iter for one Pixel(coord, color).
draw_pixel(px, bytes) ==
    IF pixel_accepted(px.pt)
    THEN goto_pixel(px.pt.x % 65536, px.pt.y % 65536) \o <<Cmd(4)>> \o write_bytes(bytes)
    ELSE <<>>

\* draw_iter of the 16-bit adapter.
RECURSIVE draw_iter_16(_)
draw_iter_16(pixels) ==
    IF pixels = <<>> THEN <<>>
    ELSE draw_pixel(Head(pixels), pixel_bytes_16(Head(pixels).c))
             \o draw_iter_16(Tail(pixels))

\* draw_iter of the 24-bit adapter.
RECURSIVE draw_iter_24(_)
draw_iter_24(pixels) ==
    IF pixels = <<>> THEN <<>>
    ELSE draw_pixel(Head(pixels), pixel_bytes_24(Head(pixels).c))
             \o draw_iter_24(Tail(pixels))

\* fill_solid: drawable_area = area.intersection(&self.bounding_box());
\*   if drawable_area.size != Size::zero() { .. }
fill_enters(area) ==
    LET d == intersection(area, bounding_box)
    IN  ~(d.w = 0 /\ d.h = 0)

\* drawable_area.bottom_right().unwrap() panics on None.
fill_panics(area) ==
    fill_enters(area) /\ bottom_right(intersection(area, bounding_box)) = <<>>

\* The foreground bytes fill_solid passes to fg_color.
\* 16-bit: (color.r() << 3, color.g() << 2, color.b() << 3)
fill_bytes_16(c) == <<Shl8(c.r, 3), Shl8(c.g, 2), Shl8(c.b, 3)>>

\* 24-bit: (color.r(), color.g(), color.b())
fill_bytes_24(c) == <<c.r, c.g, c.b>>

fill_solid_unclipped(area, fg) ==
    LET br == bottom_right(area)[1]
    IN  IF fill_enters(area)
        THEN fg_color(fg[1], fg[2], fg[3])
                 \o line_start(area.x % 65536, area.y % 65536)
                 \o line_end(br.x % 65536, br.y % 65536)
                 \o rect_fill
        ELSE <<>>

\* The body of fill_solid when it neither skips nor panics; x as _ is a cast to u16.
fill_solid(area, fg) ==
    LET d == intersection(area, bounding_box)
        br == bottom_right(d)[1]
    IN  IF fill_enters(area)
        THEN fg_color(fg[1], fg[2], fg[3])
                 \o line_start(d.x % 65536, d.y % 65536)
                 \o line_end(br.x % 65536, br.y % 65536)
                 \o rect_fill
        ELSE <<>>

\* A call that panics: the firmware halts (panic_halt, main.rs 4).
StartPanic(name, arg) ==
    /\ res \notin {"run", "panic"}
    /\ op' = [name |-> name, arg |-> arg, mode0 |-> color_mode]
    /\ res' = "panic"
    /\ prog' = <<>>
    /\ naps' = <<>>
    /\ trace' = <<>>
    /\ busy' = 0
    /\ v' = 0
    /\ rx' = <<0, 0>>
    /\ txn' = <<>>
    /\ UNCHANGED <<color_mode, wrap, cs, regs, sel, peer>>

\* Inputs of the drawing calls.
Pt(x, y) == [x |-> x, y |-> y]

Color16 == [r |-> 21, g |-> 42, b |-> 11]
Color24 == [r |-> 1, g |-> 2, b |-> 3]
White16 == [r |-> 31, g |-> 63, b |-> 31]
White24 == [r |-> 255, g |-> 255, b |-> 255]

\* The pixel lists draw_iter is called with: in-bounds pixels, pixels on the
\* edges x = WIDTH and y = HEIGHT, pixels outside, alone and mixed.
PixelLists(c) ==
    LET P(x, y) == [pt |-> Pt(x, y), c |-> c]
    IN  { <<>>,
          <<P(300, 5)>>, <<P(480, 0)>>, <<P(0, 272)>>, <<P(-1, 0)>>, <<P(0, -1)>>,
          <<P(481, 273)>>, <<P(479, 271)>>,
          <<P(-1, 0), P(481, 0)>>,
          <<P(300, 5), P(0, 273), P(1, 0)>> }

FillRects ==
    { Rect(0, 0, WIDTH, HEIGHT), Rect(10, 20, 300, 7), Rect(-5, -5, 3, 3),
      Rect(480, 0, 5, 5), Rect(0, 272, 4, 4), Rect(470, 260, 20, 20),
      Rect(-3, -3, 10, 10), Rect(10, 10, 0, 0), Rect(10, 10, 0, 5),
      Rect(500, 10, 0, 5),
      Rect(-10, -10, 1000, 1000), Rect(479, 271, 1, 1), Rect(-2, 100, 5, 400) }

CallDraw16BitNew ==
    /\ wrap = "none"
    /\ Start("Draw16Bit_new", <<>>, Draw16Bit_new(color_mode))

CallDraw24BitNew ==
    /\ wrap = "none"
    /\ Start("Draw24Bit_new", <<>>, Draw24Bit_new(color_mode))

CallRelease ==
    /\ wrap \in {"Draw16", "Draw24"}
    /\ Start("release", <<>>, release)

CallDrawIter ==
    \/ /\ wrap = "Draw16"
       /\ \E l \in PixelLists(Color16) : Start("draw_iter", l, draw_iter_16(l))
    \/ /\ wrap = "Draw24"
       /\ \E l \in PixelLists(Color24) : Start("draw_iter", l, draw_iter_24(l))

CallFillSolid ==
    \E area \in FillRects :
        \/ /\ wrap = "Draw16"
           /\ \E c \in {Color16, White16} :
                IF fill_panics(area) THEN StartPanic("fill_solid", <<area, c>>)
                ELSE Start("fill_solid", <<area, c>>, fill_solid(area, fill_bytes_16(c)))
        \/ /\ wrap = "Draw24"
           /\ \E c \in {Color24, White24} :
                IF fill_panics(area) THEN StartPanic("fill_solid", <<area, c>>)
                ELSE Start("fill_solid", <<area, c>>, fill_solid(area, fill_bytes_24(c)))

\* A drawing session: the application wraps the handle and draws, and stops at
\* the first call that does not return Ok.
NextDraw ==
    \/ (res = "Ok" /\ CallDraw16BitNew)
    \/ (res = "Ok" /\ CallDraw24BitNew)
    \/ (res = "Ok" /\ CallRelease)
    \/ (res = "Ok" /\ CallDrawIter)
    \/ (res = "Ok" /\ CallFillSolid)
    \/ Step

SpecDraw == Init /\ [][NextDraw]_vars

----------------------------------------------------------------------------
\* Bring-up (lib.rs 163-211, 273-297, 313-524).  The delays between frames
\* put nothing on the bus; they are recorded in naps.

\* system_check_temp: loop { if status_read()? & 0x02 == 0 { cmd_write(0x01)?;
\*   if data_read()? & 0x80 == 0x80 { return Ok(()) }
\*   cmd_write(0x01)?; data_write(0x80)?; } }     (continued in After)
system_check_temp_no_status == <<Cmd(1), Ins("tread", 0, 0, 0, "")>>

system_check_temp == <<Ins("tstat", 0, 0, 0, "")>>

\* while self.status_read()? & 0x02 != 0 {}
wait_reset_cleared == <<Poll(2, 1)>>

\* pll_init: od = 2, r = 5 -> (2 << 6) | (5 << 1) = 138; n = 15, 100, 100;
\* the latch cmd_write(0x00), delay, data_write(0x80); then the PWM registers.
pll_init_latch_without_delay ==
    register_write(5, 138) \o register_write(7, 138) \o register_write(9, 138)
        \o register_write(6, 15) \o register_write(8, 100) \o register_write(10, 100)
        \o <<Cmd(0), Data(128), Delay(1)>>
        \o register_write(133, 10) \o register_write(136, 100)
        \o register_write(138, 100) \o register_write(140, 100)
        \o register_write(142, 100) \o register_write(134, 51)

pll_init ==
    register_write(5, 138) \o register_write(7, 138) \o register_write(9, 138)
        \o register_write(6, 15) \o register_write(8, 100) \o register_write(10, 100)
        \o <<Cmd(0), Delay(1), Data(128), Delay(1)>>
        \o register_write(133, 10) \o register_write(136, 100)
        \o register_write(138, 100) \o register_write(140, 100)
        \o register_write(142, 100) \o register_write(134, 51)

\* sdram_check_ready: while self.status_read()? & 0x04 == 0 {}
sdram_check_ready_while_set == <<Poll(4, 1)>>

sdram_check_ready == <<Poll(4, 0)>>

\* sdram_init: 0xe0 = 0x29, 0xe1 = 0x03, 0xe2 / 0xe3 = 476 split, 0xe4 = 0x01, wait
sdram_init_without_wait ==
    register_write(224, 41) \o register_write(225, 3)
        \o register_write(226, AsU8(476)) \o register_write(227, HiU8(476))
        \o register_write(228, 1) \o <<Delay(1)>>

sdram_init ==
    register_write(224, 41) \o register_write(225, 3)
        \o register_write(226, AsU8(476)) \o register_write(227, HiU8(476))
        \o register_write(228, 1) \o sdram_check_ready \o <<Delay(1)>>

\* The read-modify-write toggles: cmd_write(addr)?; v = f(data_read()?); data_write(v)
tft_16bit_blind_write == <<Cmd(1), Data(16)>>

tft_16bit == <<Cmd(1), Read, WMod(16, 8, 0)>>
host_16bit == <<Cmd(1), Read, WMod(1, 0, 0)>>
rgb_16bit_16bpp == <<Cmd(2), Read, WMod(64, 128, 0)>>
memwrite_left_right_top_down == <<Cmd(2), Read, WMod(0, 6, 0)>>
graphic_mode == <<Cmd(3), Read, WMod(0, 4, 0)>>
mem_select_sdram == <<Cmd(3), Read, WMod(0, 3, 0)>>
hscan_l_to_r == <<Cmd(18), Read, WMod(0, 16, 0)>>
vscan_t_to_b == <<Cmd(18), Read, WMod(0, 8, 0)>>
pdata_set_rgb == <<Cmd(18), Read, WMod(0, 7, 0)>>
pclk_falling == <<Cmd(18), Read, WMod(128, 0, 0)>>
hsync_low_active == <<Cmd(19), Read, WMod(0, 128, 0)>>
vsync_low_active == <<Cmd(19), Read, WMod(0, 64, 0)>>
de_high_active == <<Cmd(19), Read, WMod(0, 32, 0)>>
memory_xy_mode == <<Cmd(94), Read, WMod(0, 4, 0)>>

\* u16 subtraction (wrapping) and saturating_sub(1)
SubU16(a, b) == (a - b + 65536) % 65536

SatSub1(a) == IF a = 0 THEN 0 ELSE a - 1

\* set_width_height: 0x14 = (w / 8 - 1), 0x15 = w % 8, 0x1A / 0x1B = (h - 1) split
set_width_height_undivided(w, h) ==
    register_write(20, AsU8(SubU16(w, 1))) \o register_write(21, AsU8(w % 8))
        \o register_write(26, AsU8(SubU16(h, 1))) \o register_write(27, HiU8(SubU16(h, 1)))

set_width_height(w, h) ==
    register_write(20, AsU8(SubU16(w \div 8, 1))) \o register_write(21, AsU8(w % 8))
        \o register_write(26, AsU8(SubU16(h, 1))) \o register_write(27, HiU8(SubU16(h, 1)))

\* set_horiz_non_display: 0x16 = (w / 8 - 1), 0x17 = w % 8
set_horiz_non_display(w) ==
    register_write(22, AsU8(SubU16(w \div 8, 1))) \o register_write(23, AsU8(w % 8))

\* set_horiz_start_pos: 0x18 = (w / 8).saturating_sub(1)
set_horiz_start_pos(w) == register_write(24, AsU8(SatSub1(w \div 8)))

\* set_horiz_pulse_width: 0x19 = (w / 8).saturating_sub(1)
set_horiz_pulse_width(w) == register_write(25, AsU8(SatSub1(w \div 8)))

\* set_vert_non_display: v = v - 1; 0x1c / 0x1d = v split
set_vert_non_display(n) ==
    register_write(28, AsU8(SubU16(n, 1))) \o register_write(29, HiU8(SubU16(n, 1)))

\* set_vert_start_pos: 0x1e = v.saturating_sub(1)
set_vert_start_pos(n) == register_write(30, AsU8(SatSub1(n)))

\* set_vert_pulse_width: 0x1f = v.saturating_sub(1)
set_vert_pulse_width(n) == register_write(31, AsU8(SatSub1(n)))

\* (addr >> k) as u8 for a u32
ByteOf(x, k) == (x \div (2 ^ k)) % 256

\* main_image: 0x20..0x23 = addr, 0x24 / 0x25 = w, 0x26 / 0x27 = x, 0x28 / 0x29 = y
main_image(addr, x, y, w) ==
    register_write(32, ByteOf(addr, 0)) \o register_write(33, ByteOf(addr, 8))
        \o register_write(34, ByteOf(addr, 16)) \o register_write(35, ByteOf(addr, 24))
        \o register_write(36, AsU8(w)) \o register_write(37, HiU8(w))
        \o register_write(38, AsU8(x)) \o register_write(39, HiU8(x))
        \o register_write(40, AsU8(y)) \o register_write(41, HiU8(y))

\* canvas_image: 0x50..0x53 = addr, 0x54 / 0x55 = w
canvas_image(addr, w) ==
    register_write(80, ByteOf(addr, 0)) \o register_write(81, ByteOf(addr, 8))
        \o register_write(82, ByteOf(addr, 16)) \o register_write(83, ByteOf(addr, 24))
        \o register_write(84, AsU8(w)) \o register_write(85, HiU8(w))

\* active_window: 0x56..0x59 = x, y; 0x5a..0x5d = w, h
active_window(x, y, w, h) ==
    register_write(86, AsU8(x)) \o register_write(87, HiU8(x))
        \o register_write(88, AsU8(y)) \o register_write(89, HiU8(y))
        \o register_write(90, AsU8(w)) \o register_write(91, HiU8(w))
        \o register_write(92, AsU8(h)) \o register_write(93, HiU8(h))

\* init, in the order of its statements; mode is self.color_mode.
init_single_select(mode) ==
    system_check_temp \o <<Delay(100)>> \o wait_reset_cleared
        \o pll_init \o sdram_init
        \o tft_16bit \o host_16bit
        \o rgb_16bit_16bpp \o memwrite_left_right_top_down
        \o graphic_mode \o mem_select_sdram
        \o hscan_l_to_r \o vscan_t_to_b \o pdata_set_rgb
        \o pclk_falling \o hsync_low_active \o vsync_low_active \o de_high_active
        \o set_width_height(WIDTH, HEIGHT)
        \o set_horiz_non_display(LCD_HBPD) \o set_horiz_start_pos(LCD_HFPD)
        \o set_horiz_pulse_width(LCD_HSPW)
        \o set_vert_non_display(LCD_VBPD) \o set_vert_start_pos(LCD_VFPD)
        \o set_vert_pulse_width(LCD_VSPW)
        \o select_main_window_color_mode(mode)
        \o memory_xy_mode \o memory_color_mode(mode)
        \o on(TRUE)
        \o main_image(0, 0, 0, WIDTH) \o canvas_image(0, WIDTH)
        \o active_window(0, 0, WIDTH, HEIGHT)

init(mode) ==
    system_check_temp \o <<Delay(100)>> \o wait_reset_cleared
        \o pll_init \o sdram_init
        \o tft_16bit \o host_16bit
        \o rgb_16bit_16bpp \o memwrite_left_right_top_down
        \o graphic_mode \o mem_select_sdram
        \o hscan_l_to_r \o vscan_t_to_b \o pdata_set_rgb
        \o pclk_falling \o hsync_low_active \o vsync_low_active \o de_high_active
        \o set_width_height(WIDTH, HEIGHT)
        \o set_horiz_non_display(LCD_HBPD) \o set_horiz_start_pos(LCD_HFPD)
        \o set_horiz_pulse_width(LCD_HSPW)
        \o set_vert_non_display(LCD_VBPD) \o set_vert_start_pos(LCD_VFPD)
        \o set_vert_pulse_width(LCD_VSPW)
        \o select_main_window_color_mode(mode)
        \o memory_xy_mode \o memory_color_mode(mode)
        \o select_main_window_color_mode(mode)
        \o on(TRUE)
        \o select_main_window_color_mode(mode)
        \o main_image(0, 0, 0, WIDTH) \o canvas_image(0, WIDTH)
        \o active_window(0, 0, WIDTH, HEIGHT)

\* The application calls init once, on the handle it has just constructed
\* (main.rs 98-105).
CallInit ==
    /\ wrap = "none"
    /\ op.name = "new"
    /\ Start("init", <<>>, init(color_mode))

CallSetColorMode ==
    /\ wrap = "none"
    /\ \E m \in Modes : Start("set_color_mode", <<m>>, set_color_mode(m, color_mode))

\* Bring-up and colour-mode changes: the application stops at the first call
\* that does not return Ok.
NextMode ==
    \/ (res = "Ok" /\ CallInit)
    \/ (res = "Ok" /\ CallSetColorMode)
    \/ (res = "Ok" /\ CallDraw16BitNew)
    \/ (res = "Ok" /\ CallDraw24BitNew)
    \/ (res = "Ok" /\ CallRelease)
    \/ Step

SpecMode == Init /\ [][NextMode]_vars

----------------------------------------------------------------------------
\* Bring-up and drawing on a bus and a chip-select line that never fail, with a
\* chip that answers "not ready" at most MaxBusy times per operation.  An
\* operation that has started keeps running: the processor executes the driver's
\* next transaction (there is one thread and no interrupt touches the driver).
NextLive ==
    \/ (res = "Ok" /\ CallInit)
    \/ (res = "Ok" /\ CallDraw16BitNew)
    \/ (res = "Ok" /\ CallDraw24BitNew)
    \/ (res = "Ok" /\ CallDrawIter)
    \/ (res = "Ok" /\ CallFillSolid)
    \/ StepNoFault

SpecLive == Init /\ [][NextLive]_vars /\ WF_vars(StepNoFault)

----------------------------------------------------------------------------
\* Two accessors of one chip.  The handle runs on() or color_bars(); a second
\* accessor with a handle of its own on the same bus runs the other of the two.
\* Each frame is one chip-select-scoped transaction; the transactions of the two
\* are interleaved in any order.  peer.at records, per frame of the second
\* accessor, how many frames the handle's operation had sent before it.
CallShared ==
    /\ op.name = "new"
    /\ peer = NoPeer
    /\ \E b \in BOOLEAN :
          \/ Start("on", <<b>>, on(b))
          \/ Start("color_bars", <<b>>, color_bars(b))

CallPeer ==
    /\ op.name \in {"on", "color_bars"}
    /\ peer = NoPeer
    /\ \E b \in BOOLEAN :
          peer' = [name |-> IF op.name = "on" THEN "color_bars" ELSE "on",
                   arg |-> <<b>>,
                   prog |-> IF op.name = "on" THEN color_bars(b) ELSE on(b),
                   v |-> 0, res |-> "run", at |-> <<>>]
    /\ UNCHANGED <<color_mode, wrap, cs, regs, sel, op, prog, v, rx, res, trace, txn,
                   busy, naps>>

\* One transaction of the second accessor, on a bus and lines that work.
PeerStep ==
    /\ peer.res = "run"
    /\ cs = "high"
    /\ LET i == Head(peer.prog)
       IN  \E e \in ChipAnswers(i) :
             LET tx == FrameOf(i, peer.v)
             IN  /\ sel' = SelAfter(tx)
                 /\ regs' = RegsAfter(tx)
                 /\ peer' = [peer EXCEPT
                               !.prog = Tail(peer.prog),
                               !.v = IF AssignsLocal(i) THEN e ELSE peer.v,
                               !.res = IF Tail(peer.prog) = <<>> THEN "Ok" ELSE "run",
                               !.at = Append(peer.at, Len(trace))]
    /\ UNCHANGED <<color_mode, wrap, cs, op, prog, v, rx, res, trace, txn, busy, naps>>

NextShared ==
    \/ CallShared
    \/ CallPeer
    \/ PeerStep
    \/ Step

SpecShared == Init /\ [][NextShared]_vars

----------------------------------------------------------------------------
\* The colour packing of the 16-bit adapter as functions of the colour: every
\* Rgb565 value is packed once as a pixel and once as a fill colour, and the
\* frames carrying the bytes are recorded.
Colours565 == [r : 0..31, g : 0..63, b : 0..31]

InitPack ==
    /\ color_mode = "SixteenBit"
    /\ wrap = "Draw16"
    /\ cs = "high"
    /\ regs = [r \in StoredRegs |-> 0]
    /\ sel = 0
    /\ \E c \in Colours565 : op = [name |-> "colour", arg |-> <<c>>, mode0 |-> "SixteenBit"]
    /\ prog = <<>>
    /\ v = 0
    /\ rx = <<0, 0>>
    /\ res = "Ok"
    /\ trace = <<>>
    /\ txn = <<>>
    /\ busy = 0
    /\ naps = <<>>
    /\ peer = NoPeer

\* The frames of the instructions p when nothing fails: data bytes are
\* constants here, no instruction reads.
FramesOf(p) == [k \in 1..Len(p) |-> FrameOf(p[k], 0)]

ApplyPack ==
    /\ op.name = "colour"
    /\ \/ /\ op' = [op EXCEPT !.name = "pixel_bytes_16"]
          /\ LET bytes == pixel_bytes_16(op.arg[1])
             IN  trace' = FramesOf(<<Data(bytes[1]), Data(bytes[2])>>)
       \/ /\ op' = [op EXCEPT !.name = "fill_bytes_16"]
          /\ LET fg == fill_bytes_16(op.arg[1])
             IN  trace' = FramesOf(fg_color(fg[1], fg[2], fg[3]))
    /\ UNCHANGED <<color_mode, wrap, cs, regs, sel, prog, v, rx, res, txn, busy, naps,
                   peer>>

SpecPack == InitPack /\ [][ApplyPack]_vars

----------------------------------------------------------------------------
\* The functions of the handle one at a time: each is called on a handle that
\* has just been constructed, or after one register write that sets up the
\* contents of a register.

Fresh == res = "Ok" /\ wrap = "none" /\ op.name \in {"new", "register_write"}

CallSetup ==
    /\ op.name = "new"
    /\ CallRegisterWrite

\* Backlight PWM (lib.rs 526-576).

\* select_pwm1: v = (data_read()? | 0b1000) & !0b0100 on 0x85
select_pwm1 == <<Cmd(133), Read, WMod(8, 4, 0)>>

\* set_pwm_prescaler_1_to_256: 0x84 = v.saturating_sub(1)
set_pwm_prescaler_1_to_256(n) == register_write(132, AsU8(SatSub1(n)))

\* select_pwm1_clock_div_by_1: v = data_read()? & !0b1100_0000 on 0x85
select_pwm1_clock_div_by_1 == <<Cmd(133), Read, WMod(0, 192, 0)>>

\* set_timer1_count_buffer: 0x8e = v as u8, 0x8f = (v >> 8) as u8
set_timer1_count_buffer(n) == register_write(142, AsU8(n)) \o register_write(143, HiU8(n))

\* set_timer1_compare_buffer: 0x8c = v as u8, 0x8d = (v >> 8) as u8
set_timer1_compare_buffer(n) == register_write(140, AsU8(n)) \o register_write(141, HiU8(n))

\* start_pwm1: v = data_read()? | 0b1_0000 on 0x86
start_pwm1 == <<Cmd(134), Read, WMod(16, 0, 0)>>

\* set_brightness(v)
set_brightness_period_from_arg(n) ==
    select_pwm1 \o set_pwm_prescaler_1_to_256(20) \o select_pwm1_clock_div_by_1
        \o set_timer1_count_buffer(n) \o set_timer1_compare_buffer(n) \o start_pwm1

set_brightness(n) ==
    select_pwm1 \o set_pwm_prescaler_1_to_256(20) \o select_pwm1_clock_div_by_1
        \o set_timer1_count_buffer(100) \o set_timer1_compare_buffer(n) \o start_pwm1

\* Inputs of set_brightness (u16).
BrightnessVals == {0, 1, 100, 255, 256, 4660, 65535}

CallSetBrightness ==
    /\ Fresh
    /\ \E n \in BrightnessVals : Start("set_brightness", <<n>>, set_brightness(n))

\* Foreground / background colour.
\* TFTMC043::bg_color: register_write(0xD5, r)?; register_write(0xD6, g)?; register_write(0xD7, b)
bg_color(r, g, b) ==
    register_write(213, r) \o register_write(214, g) \o register_write(215, b)

\* er5517.rs color_mode(mode, r, g, b): clamp each channel to its width and
\* shift it into the high bits; r.clamp(0, m) on a u8 is min(r, m).
er5517_color_mode(mode, r, g, b) ==
    CASE mode = "EightBit" ->
            <<Shl8(Min(r, 7), 5), Shl8(Min(g, 7), 5), Shl8(Min(b, 3), 6)>>
      [] mode = "SixteenBit" ->
            <<Shl8(Min(r, 31), 3), Shl8(Min(g, 63), 2), Shl8(Min(b, 31), 3)>>
      [] OTHER -> <<r, g, b>>

\* ER5517::fg_color(mode, r, g, b): (r, g, b) = color_mode(mode, r, g, b); then the
\* three register writes.
er5517_fg_color(mode, r, g, b) ==
    LET c == er5517_color_mode(mode, r, g, b)
    IN  register_write(210, c[1]) \o register_write(211, c[2]) \o register_write(212, c[3])

\* ER5517::bg_color(mode, r, g, b)
er5517_bg_color(mode, r, g, b) ==
    LET c == er5517_color_mode(mode, r, g, b)
    IN  register_write(213, c[1]) \o register_write(214, c[2]) \o register_write(215, c[3])

\* Inputs of the colour setters: in range for every mode, out of range for the
\* 8-bit mode only, out of range for both narrow modes.
ChannelTriples == {<<3, 5, 2>>, <<20, 40, 9>>, <<255, 200, 77>>}

\* TFTMC043::fg_color / bg_color take no mode: the handle's recorded mode is
\* the mode the chip is in.
CallFgColor ==
    /\ Fresh
    /\ \E c \in ChannelTriples :
          \/ Start("fg_color", c, fg_color(c[1], c[2], c[3]))
          \/ Start("bg_color", c, bg_color(c[1], c[2], c[3]))

\* The ER5517 driver's setters take the mode as an argument.
CallEr5517Color ==
    /\ Fresh
    /\ \E c \in ChannelTriples, m \in Modes :
          \/ Start("er5517_fg_color", <<c[1], c[2], c[3], m>>,
                   er5517_fg_color(m, c[1], c[2], c[3]))
          \/ Start("er5517_bg_color", <<c[1], c[2], c[3], m>>,
                   er5517_bg_color(m, c[1], c[2], c[3]))

\* The read-modify-write functions.
RmwPlain ==
    {"tft_16bit", "host_16bit", "rgb_16bit_16bpp", "memwrite_left_right_top_down",
     "graphic_mode", "mem_select_sdram", "hscan_l_to_r", "vscan_t_to_b",
     "pdata_set_rgb", "pclk_falling", "hsync_low_active", "vsync_low_active",
     "de_high_active", "memory_xy_mode", "select_pwm1",
     "select_pwm1_clock_div_by_1", "start_pwm1"}

RmwProg(name) ==
    CASE name = "tft_16bit" -> tft_16bit
      [] name = "host_16bit" -> host_16bit
      [] name = "rgb_16bit_16bpp" -> rgb_16bit_16bpp
      [] name = "memwrite_left_right_top_down" -> memwrite_left_right_top_down
      [] name = "graphic_mode" -> graphic_mode
      [] name = "mem_select_sdram" -> mem_select_sdram
      [] name = "hscan_l_to_r" -> hscan_l_to_r
      [] name = "vscan_t_to_b" -> vscan_t_to_b
      [] name = "pdata_set_rgb" -> pdata_set_rgb
      [] name = "pclk_falling" -> pclk_falling
      [] name = "hsync_low_active" -> hsync_low_active
      [] name = "vsync_low_active" -> vsync_low_active
      [] name = "de_high_active" -> de_high_active
      [] name = "memory_xy_mode" -> memory_xy_mode
      [] name = "select_pwm1" -> select_pwm1
      [] name = "select_pwm1_clock_div_by_1" -> select_pwm1_clock_div_by_1
      [] name = "start_pwm1" -> start_pwm1

CallRmw ==
    /\ Fresh
    /\ \/ \E n \in RmwPlain : Start(n, <<>>, RmwProg(n))
       \/ \E m \in Modes :
             \/ Start("select_main_window_color_mode", <<m>>,
                      select_main_window_color_mode(m))
             \/ Start("memory_color_mode", <<m>>, memory_color_mode(m))

CallOn ==
    /\ Fresh
    /\ \E b \in BOOLEAN : Start("on", <<b>>, on(b))

CallColorBars ==
    /\ Fresh
    /\ \E b \in BOOLEAN : Start("color_bars", <<b>>, color_bars(b))

CallSystemCheckTemp ==
    /\ Fresh
    /\ Start("system_check_temp", <<>>, system_check_temp)

\* The four waits on the status register.
WaitNames ==
    {"wait_reset_cleared", "sdram_check_ready", "busy_draw", "check_mem_wr_fifo_ready"}

WaitProg(name) ==
    CASE name = "wait_reset_cleared" -> wait_reset_cleared
      [] name = "sdram_check_ready" -> sdram_check_ready
      [] name = "busy_draw" -> busy_draw
      [] name = "check_mem_wr_fifo_ready" -> check_mem_wr_fifo_ready

CallWait ==
    /\ Fresh
    /\ \E w \in WaitNames : Start(w, <<>>, WaitProg(w))

\* Panel geometry.  The sizes the two drivers pass: WIDTH x HEIGHT (lib.rs
\* 26-27) and LCD_SIZE (er5517.rs 9).
PanelSizes == {<<WIDTH, HEIGHT>>, <<800, 480>>}

CallGeometry ==
    /\ Fresh
    /\ \E sz \in PanelSizes :
          \/ Start("set_width_height", sz, set_width_height(sz[1], sz[2]))
          \/ Start("main_image", <<0, 0, 0, sz[1]>>, main_image(0, 0, 0, sz[1]))
          \/ Start("canvas_image", <<0, sz[1]>>, canvas_image(0, sz[1]))
          \/ Start("active_window", <<0, 0, sz[1], sz[2]>>,
                   active_window(0, 0, sz[1], sz[2]))

\* Porch and sync timings.  `a - b` on u16 with a < b panics in a build with
\* overflow checks and wraps in a build without them.
Underflows(a, b) == a < b

TimingVals == {0, 1, 7, 8, 20, 140, 65535}

\* A call whose subtraction may underflow: either outcome of the build.
StartChecked(name, arg, p, underflow) ==
    \/ Start(name, arg, p)
    \/ underflow /\ StartPanic(name, arg)

CallTiming ==
    /\ Fresh
    /\ \E n \in TimingVals :
          \/ StartChecked("set_horiz_non_display", <<n>>, set_horiz_non_display(n),
                          Underflows(n \div 8, 1))
          \/ Start("set_horiz_start_pos", <<n>>, set_horiz_start_pos(n))
          \/ Start("set_horiz_pulse_width", <<n>>, set_horiz_pulse_width(n))
          \/ StartChecked("set_vert_non_display", <<n>>, set_vert_non_display(n),
                          Underflows(n, 1))
          \/ Start("set_vert_start_pos", <<n>>, set_vert_start_pos(n))
          \/ Start("set_vert_pulse_width", <<n>>, set_vert_pulse_width(n))

NextOps ==
    \/ CallSetup
    \/ CallGeometry
    \/ CallTiming
    \/ CallWait
    \/ CallRmw
    \/ CallOn
    \/ CallColorBars
    \/ CallSetBrightness
    \/ CallFgColor
    \/ CallEr5517Color
    \/ CallSystemCheckTemp
    \/ Step

SpecOps == Init /\ [][NextOps]_vars

----------------------------------------------------------------------------
\* Properties of the register-level operations (checked under SpecReg).

\* p is an initial segment of q.
IsPrefix(p, q) == Len(p) <= Len(q) /\ \A k \in 1..Len(p) : p[k] = q[k]

\* C1: a register_write(addr, value) never puts anything on the bus but the
\* frame [0x00, addr] followed by the frame [0x80, value], and when it returns
\* Ok it has put exactly these two frames on the bus, in that order.
C1_RegisterWriteFrames ==
    op.name = "register_write" =>
        /\ IsPrefix(trace, << <<0, op.arg[1]>>, <<128, op.arg[2]>> >>)
        /\ res = "Ok" => trace = << <<0, op.arg[1]>>, <<128, op.arg[2]>> >>

C1_Witness ==
    /\ op.name = "register_write"
    /\ op.arg = <<18, 42>>
    /\ res = "Ok"
    /\ Len(trace) = 2

\* C2 (as claimed): whenever a transaction has ended, on whatever exit path,
\* chip-select is high.
C2_SelectRestoredOnEveryExit == txn # <<>> => cs = "high"

\* C3: a status_read that returns Ok has exchanged exactly the frame
\* [0x40, 0x00], and a data_read exactly [0xC0, 0x00], in one transaction that
\* drove chip-select low, made one transfer and drove chip-select high, and the
\* byte it returns is the second byte of the buffer the transfer filled.
C3_ReadsReturnSecondByte ==
    /\ (op.name = "status_read" /\ res = "Ok") =>
          /\ trace = << <<64, 0>> >>
          /\ txn = <<"set_low", "xfer", "set_high">>
          /\ v = rx[2]
    /\ (op.name = "data_read" /\ res = "Ok") =>
          /\ trace = << <<192, 0>> >>
          /\ txn = <<"set_low", "xfer", "set_high">>
          /\ v = rx[2]

C3_Witness ==
    /\ op.name = "data_read"
    /\ res = "Ok"
    /\ sel = 210
    /\ rx = <<255, 127>>
    /\ v = 127

----------------------------------------------------------------------------
\* Properties of the drawing adapters (checked under SpecDraw).

\* The panel: 0 <= x < WIDTH, 0 <= y < HEIGHT.
InPanel(pt) == pt.x >= 0 /\ pt.y >= 0 /\ pt.x < WIDTH /\ pt.y < HEIGHT

\* C4 (as claimed): a draw_iter all of whose pixels lie outside the panel puts
\* no frame on the bus and returns no error.
C4_OutsidePixelsSilent ==
    (op.name = "draw_iter" /\ \A k \in 1..Len(op.arg) : ~InPanel(op.arg[k].pt)) =>
        (trace = <<>> /\ res \notin {"Pin", "SPI", "panic"})

\* The rectangle has no point in common with the panel.
MissesPanel(a) ==
    \/ a.w = 0
    \/ a.h = 0
    \/ a.x >= WIDTH
    \/ a.y >= HEIGHT
    \/ a.x + a.w <= 0
    \/ a.y + a.h <= 0

\* C5 (as claimed): a fill_solid whose rectangle has an empty intersection with
\* the panel (entirely outside, or of zero size) puts no frame on the bus and
\* returns Ok.
C5_EmptyFillSilent ==
    (op.name = "fill_solid" /\ MissesPanel(op.arg[1])) =>
        (trace = <<>> /\ res = "Ok")

\* The rectangle is not empty and lies inside the panel.
InsidePanel(a) ==
    a.w > 0 /\ a.h > 0 /\ a.x >= 0 /\ a.y >= 0 /\ a.x + a.w <= WIDTH /\ a.y + a.h <= HEIGHT

\* The two frames of a write of value d to register a.
RW(a, d) == << <<0, a>>, <<128, d>> >>

\* The colour bytes the claim gives per adapter.
C6_Colour(w, c) ==
    IF w = "Draw24" THEN <<c.r, c.g, c.b>>
    ELSE <<(c.r * 8) % 256, (c.g * 4) % 256, (c.b * 8) % 256>>

\* The 24 frames the claim lists for the rectangle a and the colour bytes cb.
C6_Frames(a, cb) ==
    LET x2 == a.x + a.w - 1
        y2 == a.y + a.h - 1
    IN  RW(210, cb[1]) \o RW(211, cb[2]) \o RW(212, cb[3])
            \o RW(104, a.x % 256) \o RW(105, a.x \div 256)
            \o RW(106, a.y % 256) \o RW(107, a.y \div 256)
            \o RW(108, x2 % 256) \o RW(109, x2 \div 256)
            \o RW(110, y2 % 256) \o RW(111, y2 \div 256)
            \o RW(118, 224)

\* C6: a fill_solid of a rectangle inside the panel puts on the bus, in order,
\* the writes 0xD2, 0xD3, 0xD4 of the colour, 0x68..0x6B of (x, y), 0x6C..0x6F of
\* (x+w-1, y+h-1) and 0x76 = 0xE0, then nothing but status reads, and returns Ok
\* only right after the first status read with bit 0x08 clear.  The full-panel
\* white fill on the 24-bit adapter writes 255, 255, 255, then (0, 0), then
\* (WIDTH-1, HEIGHT-1) = (479, 271).
C6_FillInsideFrames ==
    (op.name = "fill_solid" /\ InsidePanel(op.arg[1])) =>
        LET E == C6_Frames(op.arg[1], C6_Colour(wrap, op.arg[2]))
        IN  /\ Len(trace) <= Len(E) => IsPrefix(trace, E)
            /\ Len(trace) > Len(E) =>
                  /\ IsPrefix(E, trace)
                  /\ \A k \in (Len(E) + 1)..Len(trace) : trace[k] = <<64, 0>>
            /\ res = "Ok" =>
                  /\ Len(trace) = Len(E) + busy + 1
                  /\ (rx[2] % 16) \div 8 = 0
            /\ (res = "run" /\ Len(trace) > Len(E)) =>
                  /\ Len(trace) = Len(E) + busy
                  /\ (rx[2] % 16) \div 8 = 1
            /\ (wrap = "Draw24" /\ res = "Ok"
                  /\ op.arg = <<[x |-> 0, y |-> 0, w |-> 480, h |-> 272],
                                [r |-> 255, g |-> 255, b |-> 255]>>) =>
                  SubSeq(trace, 1, 24) =
                     << <<0, 210>>, <<128, 255>>, <<0, 211>>, <<128, 255>>,
                        <<0, 212>>, <<128, 255>>,
                        <<0, 104>>, <<128, 0>>, <<0, 105>>, <<128, 0>>,
                        <<0, 106>>, <<128, 0>>, <<0, 107>>, <<128, 0>>,
                        <<0, 108>>, <<128, 223>>, <<0, 109>>, <<128, 1>>,
                        <<0, 110>>, <<128, 15>>, <<0, 111>>, <<128, 1>>,
                        <<0, 118>>, <<128, 224>> >>

C6_Witness ==
    /\ op.name = "fill_solid"
    /\ wrap = "Draw24"
    /\ op.arg = <<[x |-> 0, y |-> 0, w |-> 480, h |-> 272],
                  [r |-> 255, g |-> 255, b |-> 255]>>
    /\ res = "Ok"
    /\ busy = 1
    /\ Len(trace) = 26

----------------------------------------------------------------------------
\* Properties of bring-up and of the colour mode (checked under SpecMode).

\* The colour-format fields of the chip: 0x5E bits 1..0 and 0x10 bits 3..2.
MemoryField(x) == x % 4

MainWindowField(x) == (x \div 4) % 4

\* A byte with its bits 3..2 cleared.
ClearMainWindowField(x) == x - 4 * MainWindowField(x)

\* C7: a set_color_mode(m) with m different from the recorded mode puts on the
\* bus nothing but, in order: select 0x5E, read, write with bits 1..0 = m and
\* the other bits as read; select 0x10, read, write with bits 3..2 = m and the
\* other bits as read.  The recorded mode is m once the call has returned Ok
\* with all six frames sent, and the mode recorded before the call until then.
C7_ModeChangeOrder ==
    (op.name = "set_color_mode" /\ op.arg[1] # op.mode0) =>
        LET m == op.arg[1]
            n == Len(trace)
        IN  /\ n <= 6
            /\ n >= 1 => trace[1] = <<0, 94>>
            /\ n >= 2 => trace[2] = <<192, 0>>
            /\ n >= 3 => (trace[3][1] = 128 /\ MemoryField(trace[3][2]) = MemoryBits(m))
            /\ n \in {3, 4} => trace[3][2] \div 4 = v \div 4
            /\ n >= 4 => trace[4] = <<0, 16>>
            /\ n >= 5 => trace[5] = <<192, 0>>
            /\ n = 6 => /\ trace[6][1] = 128
                        /\ 4 * MainWindowField(trace[6][2]) = MainWindowBits(m)
                        /\ ClearMainWindowField(trace[6][2]) = ClearMainWindowField(v)
            /\ color_mode = (IF res = "Ok" THEN m ELSE op.mode0)
            /\ res = "Ok" => /\ n = 6
                             /\ MemoryField(regs[94]) = MemoryBits(m)
                             /\ 4 * MainWindowField(regs[16]) = MainWindowBits(m)

C7_Witness ==
    /\ op.name = "set_color_mode"
    /\ op.mode0 = "TwentyFourBit"
    /\ op.arg[1] = "SixteenBit"
    /\ res = "Ok"
    /\ color_mode = "SixteenBit"
    /\ Len(trace) = 6

\* C8: a call set_color_mode(m) with m equal to the recorded mode (in
\* particular one that repeats a successful set_color_mode(m)) returns Ok at
\* once, without a frame on the bus, and leaves the recorded mode, the chip's
\* registers and chip-select as they were.
C8_RepeatIsNoOp ==
    [][(res # "run" /\ op'.name = "set_color_mode" /\ op'.arg[1] = color_mode) =>
          /\ res' = "Ok"
          /\ trace' = <<>>
          /\ prog' = <<>>
          /\ UNCHANGED <<color_mode, regs, sel, cs>>]_vars

C8_Witness ==
    /\ op.name = "set_color_mode"
    /\ op.arg[1] = op.mode0
    /\ op.mode0 = "SixteenBit"
    /\ res = "Ok"
    /\ trace = <<>>
    /\ color_mode = "SixteenBit"
    /\ MemoryField(regs[94]) = MemoryBits("SixteenBit")
    /\ 4 * MainWindowField(regs[16]) = MainWindowBits("SixteenBit")

\* C9 (as claimed, its last clause): between driver operations the memory
\* colour-format field (0x5E bits 1..0) and the main-window colour-format field
\* (0x10 bits 3..2) hold the same value: neither is left updated without the
\* other.
C9_FieldsUpdatedTogether ==
    res # "run" => MemoryField(regs[94]) = MainWindowField(regs[16])

\* The register addresses of the command-select frames of a trace, in order.
RECURSIVE CmdAddrs(_)
CmdAddrs(t) ==
    IF t = <<>> THEN <<>>
    ELSE IF Head(t)[1] = 0 THEN <<Head(t)[2]>> \o CmdAddrs(Tail(t))
    ELSE CmdAddrs(Tail(t))

\* A sequence with every run of equal neighbours reduced to one element.
RECURSIVE Collapse(_)
Collapse(q) ==
    IF Len(q) < 2 THEN q
    ELSE IF q[1] = q[2] THEN Collapse(Tail(q))
    ELSE <<q[1]>> \o Collapse(Tail(q))

RECURSIVE MapSeq(_, _)
MapSeq(F(_), q) == IF q = <<>> THEN <<>> ELSE <<F(Head(q))>> \o MapSeq(F, Tail(q))

\* The bring-up stage the claim places a register address in.  0x01 is
\* addressed by the temperature self-check and by the interface stage, 0x12 by
\* the scan-direction stage and by panel enable.
ClaimStage(a) ==
    CASE a = 1 -> "reg01"
      [] a \in {0} \cup (5..10) \cup (133..142) -> "pll"
      [] a \in 224..228 -> "sdram"
      [] a = 2 -> "pixel_format"
      [] a = 3 -> "unlisted"
      [] a = 18 -> "reg12"
      [] a = 19 -> "polarity"
      [] a \in 20..31 -> "geometry"
      [] a = 16 -> "colour_mode_select"
      [] a = 94 -> "memory_layout"
      [] a \in (32..41) \cup (80..93) -> "framebuffer"
      [] OTHER -> "other"

ClaimedStages ==
    <<"reg01", "pll", "sdram", "reg01", "pixel_format", "reg12", "polarity",
      "geometry", "colour_mode_select", "memory_layout", "reg12", "framebuffer">>

\* The stages a trace goes through, leaving out register 0x03, which the claim
\* does not list.
StagesOf(t) ==
    Collapse(MapSeq(ClaimStage, SelectSeq(CmdAddrs(t), LAMBDA a : a # 3)))

\* C10 (as claimed): an init that returned Ok went through the stages once,
\* each after the one before it: 0x01 (self-check), PLL, SDRAM, 0x01
\* (interface), 0x02, 0x12 (scan), 0x13, geometry, 0x10, 0x5E, 0x12 (panel
\* enable), framebuffer.
C10_StrictSinglePass ==
    (op.name = "init" /\ res = "Ok") => StagesOf(trace) = ClaimedStages

\* The registers init selects, in order (a register selected several times in
\* a row listed once).
InitAddrs ==
    <<1, 5, 7, 9, 6, 8, 10, 0, 133, 136, 138, 140, 142, 134,
      224, 225, 226, 227, 228,
      1, 2, 3, 18, 19,
      20, 21, 26, 27, 22, 23, 24, 25, 28, 29, 30, 31,
      16, 94, 16, 18, 16,
      32, 33, 34, 35, 36, 37, 38, 39, 40, 41,
      80, 81, 82, 83, 84, 85,
      86, 87, 88, 89, 90, 91, 92, 93>>

\* C10 (amended): init selects the registers in the order of InitAddrs -- the
\* claimed order with register 0x03 configured after 0x02 and with the
\* main-window colour mode (0x10) selected three times: before the memory
\* layout (0x5E), after it, and after panel enable (0x12).  A run that fails
\* stops where it failed; a run that returned Ok went through all of it.
C10_InitOrder ==
    op.name = "init" =>
        LET sent == Collapse(CmdAddrs(trace))
        IN  /\ Len(sent) <= Len(InitAddrs)
            /\ sent = SubSeq(InitAddrs, 1, Len(sent))
            /\ res = "Ok" => Len(sent) = Len(InitAddrs)

C10_Witness ==
    /\ op.name = "init"
    /\ res = "Ok"
    /\ busy = 1
    /\ Len(trace) > 2 * Len(InitAddrs)
    /\ trace[Len(trace)] = <<128, HiU8(HEIGHT)>>

----------------------------------------------------------------------------
\* Faults (checked under SpecMode).

Faults == {"Pin", "SPI"}

\* The events of a transaction show a control-line fault / a bus fault.
HasPinErr(ev) == \E k \in 1..Len(ev) : ev[k] \in {"set_low_err", "set_high_err"}

HasBusErr(ev) == \E k \in 1..Len(ev) : ev[k] = "xfer_err"

\* C11: the transaction of a running operation that meets a control-line or bus
\* fault is the operation's last: the operation returns in that step, with the
\* fault of that transaction (Pin for a control-line fault, SPI for a bus
\* fault), having put at most the failing frame on the bus and with nothing
\* left to send; and an operation returns a fault only so.
C11_FaultAborts ==
    [][res = "run" =>
          /\ HasPinErr(txn') => res' = "Pin"
          /\ (HasBusErr(txn') /\ ~HasPinErr(txn')) => res' = "SPI"
          /\ res' = "Pin" => HasPinErr(txn')
          /\ res' = "SPI" => HasBusErr(txn')
          /\ res' \in Faults =>
                /\ prog' = <<>>
                /\ color_mode' = color_mode
                /\ \/ trace' = trace
                   \/ /\ Len(trace') = Len(trace) + 1
                      /\ SubSeq(trace', 1, Len(trace)) = trace]_vars

\* init stopped by a bus fault of the command-select frame of the register
\* write to 0xE0: no data-write frame follows it.
C11_Witness ==
    /\ op.name = "init"
    /\ res = "SPI"
    /\ txn = <<"set_low", "xfer_err", "set_high">>
    /\ trace # <<>>
    /\ trace[Len(trace)] = <<0, 224>>
    /\ prog = <<>>

----------------------------------------------------------------------------
\* Properties of the single functions (checked under SpecOps).

\* Bit k (of weight 2^k) of a byte.
Bit(x, k) == (x \div (2 ^ k)) % 2

\* The condition each wait waits for, on the status byte.
WaitSatisfied(name, status) ==
    CASE name = "wait_reset_cleared" -> Bit(status, 1) = 0
      [] name = "sdram_check_ready" -> Bit(status, 2) = 1
      [] name = "busy_draw" -> Bit(status, 3) = 0
      [] name = "check_mem_wr_fifo_ready" -> Bit(status, 7) = 0

\* C12: a wait puts nothing on the bus but status-read frames [0x40, 0x00]; it
\* returns Ok only right after a status read whose byte satisfies its
\* condition, and it goes on (reads again) only after a status read whose byte
\* does not: so it never reads again after a satisfying read.
C12_WaitsPollStatus ==
    op.name \in WaitNames =>
        /\ \A k \in 1..Len(trace) : trace[k] = <<64, 0>>
        /\ res = "Ok" =>
              /\ trace # <<>>
              /\ txn = <<"set_low", "xfer", "set_high">>
              /\ WaitSatisfied(op.name, rx[2])
        /\ (res = "run" /\ trace # <<>>) => ~WaitSatisfied(op.name, rx[2])

C12_Witness ==
    /\ op.name = "sdram_check_ready"
    /\ res = "Ok"
    /\ Len(trace) = 2
    /\ rx[2] = 4

----------------------------------------------------------------------------
\* Termination (checked under SpecLive).

\* C13: with no bus or control-line fault and a chip that eventually gives the
\* awaited status bit and ready flag, every operation that has started -- init,
\* the adapters' constructors, fill_solid, draw_iter -- eventually returns Ok.
C13_WaitsTerminate == (res = "run") ~> (res = "Ok")

C13_Witness ==
    /\ op.name = "init"
    /\ res = "Ok"
    /\ busy = MaxBusy

----------------------------------------------------------------------------
\* Pixel-by-pixel drawing (checked under SpecDraw).

\* The colour bytes the claim gives per adapter: the RGB565 word low byte
\* first, or blue, green, red.
C14_Colour(w, c) ==
    IF w = "Draw24" THEN <<c.b, c.g, c.r>>
    ELSE LET word == c.r * 2048 + c.g * 32 + c.b
         IN  <<word % 256, word \div 256>>

\* The frames other than status reads the claim lists for one pixel.
C14_PixelFrames(w, px) ==
    LET cb == C14_Colour(w, px.c)
    IN  RW(95, px.pt.x % 256) \o RW(96, px.pt.x \div 256)
            \o RW(97, px.pt.y % 256) \o RW(98, px.pt.y \div 256)
            \o << <<0, 4>> >>
            \o [k \in 1..Len(cb) |-> <<128, cb[k]>>]

\* The frames other than status reads of a whole list: those of its in-bounds
\* pixels, in order.
RECURSIVE C14_Frames(_, _)
C14_Frames(w, pixels) ==
    IF pixels = <<>> THEN <<>>
    ELSE (IF InPanel(Head(pixels).pt) THEN C14_PixelFrames(w, Head(pixels)) ELSE <<>>)
             \o C14_Frames(w, Tail(pixels))

\* No pixel of the list lies on the column x = WIDTH or the row y = HEIGHT.
OffEdges(pixels) ==
    \A k \in 1..Len(pixels) : pixels[k].pt.x # WIDTH /\ pixels[k].pt.y # HEIGHT

IsStatusFrame(f) == f[1] = 64

\* How many of the first k frames on the bus are not status reads.
NonStatus(k) == Cardinality({i \in 1..k : ~IsStatusFrame(trace[i])})

\* The j-th frame of a list's frames is a colour byte (n colour bytes a pixel).
IsColourPos(j, n) == j >= 1 /\ ((j - 1) % (9 + n)) >= 9

\* C14: for every in-bounds pixel draw_iter puts on the bus, in order, the
\* cursor writes 0x5F..0x62 of x and y (low byte first), the command select
\* [0x00, 0x04] and the colour bytes as data writes (two bytes on the 16-bit
\* adapter; blue, green, red on the 24-bit adapter); status reads follow every
\* colour byte and nothing else, and go on until one has bit 0x80 clear, before
\* the next byte, the next pixel or the return of Ok.
C14_DrawIterFrames ==
    /\ [](( op.name = "draw_iter" /\ OffEdges(op.arg) ) =>
            LET E == C14_Frames(wrap, op.arg)
                n == IF wrap = "Draw24" THEN 3 ELSE 2
                sent == SelectSeq(trace, LAMBDA f : ~IsStatusFrame(f))
            IN  /\ IsPrefix(sent, E)
                /\ \A k \in 1..Len(trace) :
                      IF IsStatusFrame(trace[k])
                      THEN trace[k] = <<64, 0>> /\ IsColourPos(NonStatus(k), n)
                      ELSE k > 1 =>
                             (IsStatusFrame(trace[k - 1])
                                 <=> IsColourPos(NonStatus(k) - 1, n))
                /\ res = "Ok" =>
                      /\ sent = E
                      /\ E # <<>> =>
                            /\ IsStatusFrame(trace[Len(trace)])
                            /\ rx[2] < 128)
    /\ [][( /\ op.name = "draw_iter"
            /\ OffEdges(op.arg)
            /\ res = "run"
            /\ trace # <<>>
            /\ IsStatusFrame(trace[Len(trace)])
            /\ Len(trace') = Len(trace) + 1 ) =>
               (IsStatusFrame(trace'[Len(trace')]) <=> rx[2] >= 128)]_vars

C14_Witness ==
    /\ op.name = "draw_iter"
    /\ wrap = "Draw24"
    /\ Len(op.arg) = 3
    /\ res = "Ok"
    /\ busy = 1
    /\ Len(trace) = 31
    /\ trace[26] = <<64, 0>>
    /\ trace[27] = <<64, 0>>
    /\ trace[28] = <<128, 2>>

----------------------------------------------------------------------------
\* The functions of the handle one at a time (checked under SpecOps).

\* The byte x with the bits of mask replaced by those of y.
WithBits(x, mask, y) == BitOr(BitAnd(x, 255 - mask), BitAnd(y, mask))

\* C15: color_bars(on) selects register 0x12, reads it, and writes back the
\* value read with bit 0x20 set to `on` and every other bit as read; on(b) does
\* the same with bit 0x40.
C15_DisplayBitsOnly ==
    op.name \in {"color_bars", "on"} =>
        LET mask == IF op.name = "color_bars" THEN 32 ELSE 64
            want == WithBits(v, mask, IF op.arg[1] THEN 255 ELSE 0)
        IN  /\ IsPrefix(trace, << <<0, 18>>, <<192, 0>>, <<128, want>> >>)
            /\ res = "Ok" => (Len(trace) = 3 /\ regs[18] = want)

C15_Witness ==
    /\ op.name = "color_bars"
    /\ op.arg = <<FALSE>>
    /\ res = "Ok"
    /\ v = 42
    /\ regs[18] = 10

\* The frames the claim lists for set_brightness(n); the three bytes written
\* back by the read-modify-writes are x1, x2, x3.
C16_Frames(n, x1, x2, x3) ==
    << <<0, 133>>, <<192, 0>>, <<128, x1>> >>
        \o RW(132, 19)
        \o << <<0, 133>>, <<192, 0>>, <<128, x2>> >>
        \o RW(142, 100) \o RW(143, 0)
        \o RW(140, n % 256) \o RW(141, n \div 256)
        \o << <<0, 134>>, <<192, 0>>, <<128, x3>> >>

\* The data byte of the k-th frame on the bus, 0 while it has not been sent.
SentByte(k) == IF Len(trace) >= k THEN trace[k][2] ELSE 0

\* C16: set_brightness(v) puts on the bus, in order: the read-modify-write of
\* 0x85 selecting PWM 1, 0x84 = 19, the read-modify-write of 0x85 clearing bits
\* 7..6, 0x8E = 100, 0x8F = 0, 0x8C = low byte of v, 0x8D = high byte of v, and
\* the read-modify-write of 0x86 setting bit 4; each read-modify-write keeps the
\* other bits as read, and the period is 100 whatever v is.
C16_BrightnessFrames ==
    op.name = "set_brightness" =>
        /\ IsPrefix(trace, C16_Frames(op.arg[1], SentByte(3), SentByte(8), SentByte(19)))
        /\ Len(trace) = 3 => BitAnd(trace[3][2], 243) = BitAnd(v, 243)
        /\ Len(trace) = 8 => trace[8][2] = BitAnd(v, 63)
        /\ Len(trace) = 19 => trace[19][2] = BitOr(v, 16)
        /\ res = "Ok" => Len(trace) = 19

C16_Witness ==
    /\ op.name = "set_brightness"
    /\ op.arg = <<4660>>
    /\ res = "Ok"
    /\ trace[14] = <<128, 52>>
    /\ trace[16] = <<128, 18>>
    /\ trace[10] = <<128, 100>>
    /\ trace[8] = <<128, 59>>

\* The register bytes the claim gives for the channels (r, g, b) in a mode.
C17_Packed(mode, r, g, b) ==
    CASE mode = "SixteenBit" -> <<Min(r, 31) * 8, Min(g, 63) * 4, Min(b, 31) * 8>>
      [] mode = "EightBit" -> <<Min(r, 7) * 32, Min(g, 7) * 32, Min(b, 3) * 64>>
      [] OTHER -> <<r, g, b>>

\* The mode a colour setter works in: the handle's recorded mode, or the mode
\* argument of the ER5517 driver's setters.
C17_Mode == IF Len(op.arg) = 4 THEN op.arg[4] ELSE color_mode

\* C17 (as claimed): setting the foreground or background colour writes to its
\* three registers, per channel, the value clamped to the channel's width and
\* shifted into the high bits in the 16-bit and 8-bit modes, and the value
\* unchanged in the 24-bit mode.
C17_ChannelsClamped ==
    op.name \in {"fg_color", "bg_color", "er5517_fg_color", "er5517_bg_color"} =>
        LET c == C17_Packed(C17_Mode, op.arg[1], op.arg[2], op.arg[3])
            base == IF op.name \in {"fg_color", "er5517_fg_color"} THEN 210 ELSE 213
        IN  IsPrefix(trace, RW(base, c[1]) \o RW(base + 1, c[2]) \o RW(base + 2, c[3]))

\* The frames of the temperature self-check.
StatusFrame == <<64, 0>>
SelectOne == <<0, 1>>
ReadFrame == <<192, 0>>
TriggerFrame == <<128, 128>>

\* C18: the temperature self-check sends status reads while bit 0x02 is set;
\* after a status read with bit 0x02 clear it selects register 0x01 and reads
\* it; it returns Ok only right after such a read with bit 0x80 set; after one
\* with bit 0x80 clear it selects 0x01 again, writes 0x80 and goes back to the
\* status reads.
C18_SelfCheckLoop ==
    /\ [](op.name = "system_check_temp" =>
            /\ \A k \in 1..Len(trace) :
                  CASE trace[k] = StatusFrame ->
                          k = 1 \/ trace[k - 1] \in {StatusFrame, TriggerFrame}
                    [] trace[k] = SelectOne ->
                          k > 1 /\ trace[k - 1] \in {StatusFrame, ReadFrame}
                    [] trace[k] = ReadFrame ->
                          k > 2 /\ trace[k - 1] = SelectOne /\ trace[k - 2] = StatusFrame
                    [] trace[k] = TriggerFrame ->
                          k > 2 /\ trace[k - 1] = SelectOne /\ trace[k - 2] = ReadFrame
                    [] OTHER -> FALSE
            /\ res = "Ok" =>
                  /\ trace # <<>>
                  /\ trace[Len(trace)] = ReadFrame
                  /\ rx[2] >= 128)
    /\ [][( /\ op.name = "system_check_temp"
            /\ res = "run"
            /\ trace # <<>>
            /\ Len(trace') = Len(trace) + 1 ) =>
               /\ trace[Len(trace)] = StatusFrame =>
                     (trace'[Len(trace')] = StatusFrame <=> Bit(rx[2], 1) = 1)
               /\ trace[Len(trace)] = ReadFrame => rx[2] < 128]_vars

C18_Witness ==
    /\ op.name = "system_check_temp"
    /\ res = "Ok"
    /\ rx[2] = 128
    /\ trace = <<StatusFrame, SelectOne, ReadFrame, SelectOne, TriggerFrame,
                 StatusFrame, SelectOne, ReadFrame>>

\* The register, the mask and the value of the masked bits of each
\* read-modify-write function, as <<addr, mask, bits>>.
C19_Field(name, arg) ==
    CASE name = "on" -> <<18, 64, IF arg[1] THEN 64 ELSE 0>>
      [] name = "color_bars" -> <<18, 32, IF arg[1] THEN 32 ELSE 0>>
      [] name = "select_main_window_color_mode" ->
            <<16, 12, CASE arg[1] = "EightBit" -> 0
                        [] arg[1] = "SixteenBit" -> 4
                        [] arg[1] = "TwentyFourBit" -> 8>>
      [] name = "memory_color_mode" ->
            <<94, 3, CASE arg[1] = "EightBit" -> 0
                       [] arg[1] = "SixteenBit" -> 1
                       [] arg[1] = "TwentyFourBit" -> 2>>
      [] name = "tft_16bit" -> <<1, 24, 16>>
      [] name = "host_16bit" -> <<1, 1, 1>>
      [] name = "rgb_16bit_16bpp" -> <<2, 192, 64>>
      [] name = "memwrite_left_right_top_down" -> <<2, 6, 0>>
      [] name = "graphic_mode" -> <<3, 4, 0>>
      [] name = "mem_select_sdram" -> <<3, 3, 0>>
      [] name = "hscan_l_to_r" -> <<18, 16, 0>>
      [] name = "vscan_t_to_b" -> <<18, 8, 0>>
      [] name = "pdata_set_rgb" -> <<18, 7, 0>>
      [] name = "pclk_falling" -> <<18, 128, 128>>
      [] name = "hsync_low_active" -> <<19, 128, 0>>
      [] name = "vsync_low_active" -> <<19, 64, 0>>
      [] name = "de_high_active" -> <<19, 32, 0>>
      [] name = "memory_xy_mode" -> <<94, 4, 0>>
      [] name = "select_pwm1" -> <<133, 12, 8>>
      [] name = "select_pwm1_clock_div_by_1" -> <<133, 192, 0>>
      [] name = "start_pwm1" -> <<134, 16, 16>>

C19_Names ==
    {"on", "color_bars", "select_main_window_color_mode", "memory_color_mode",
     "tft_16bit", "host_16bit", "rgb_16bit_16bpp", "memwrite_left_right_top_down",
     "graphic_mode", "mem_select_sdram", "hscan_l_to_r", "vscan_t_to_b",
     "pdata_set_rgb", "pclk_falling", "hsync_low_active", "vsync_low_active",
     "de_high_active", "memory_xy_mode", "select_pwm1",
     "select_pwm1_clock_div_by_1", "start_pwm1"}

\* C19: every read-modify-write function puts exactly three frames on the bus,
\* in order: [0x00, addr], the read [0xC0, 0x00], and [0x80, f(v)] with v the
\* byte just read and f(v) differing from v in the function's mask bits only,
\* which it sets or clears to fixed values; nothing comes between the read and
\* the write.
C19_ThreeFrames ==
    op.name \in C19_Names =>
        LET fld == C19_Field(op.name, op.arg)
        IN  /\ IsPrefix(trace, << <<0, fld[1]>>, <<192, 0>>,
                                  <<128, WithBits(v, fld[2], fld[3])>> >>)
            /\ res = "Ok" => Len(trace) = 3

C19_Witness ==
    /\ op.name = "tft_16bit"
    /\ res = "Ok"
    /\ trace = << <<0, 1>>, <<192, 0>>, <<128, 119>> >>

\* The register holding the main-window colour-mode select field (bits 3..2).
MainWindowReg == 16

\* C20 (as claimed): the read-modify-write by which on() sets the display-on
\* bit is of the register that holds the main-window colour-mode select field,
\* and the byte it writes has that field as read.
C20_SameRegisterAsColourMode ==
    op.name = "on" =>
        /\ trace # <<>> => trace[1] = <<0, MainWindowReg>>
        /\ Len(trace) = 3 => MainWindowField(trace[3][2]) = MainWindowField(v)

\* C20 (amended): on(b) is a read-modify-write of register 0x12, which is not
\* the register of the main-window colour-mode select field (0x10); the byte
\* it writes is the byte read with bit 0x40 set to b, and register 0x10 is left
\* as it was.
C20_PanelEnableRegister ==
    /\ [](op.name = "on" =>
            /\ trace # <<>> => (trace[1] = <<0, 18>> /\ trace[1][2] # MainWindowReg)
            /\ Len(trace) >= 2 => trace[2] = <<192, 0>>
            /\ Len(trace) >= 3 =>
                  /\ Len(trace) = 3
                  /\ trace[3] = <<128, WithBits(v, 64, IF op.arg[1] THEN 64 ELSE 0)>>
            /\ res = "Ok" => (Len(trace) = 3 /\ regs[18] = trace[3][2]))
    /\ [][op'.name = "on" => regs'[MainWindowReg] = regs[MainWindowReg]]_vars

C20_Witness ==
    /\ op.name = "on"
    /\ op.arg = <<TRUE>>
    /\ res = "Ok"
    /\ v = 42
    /\ regs[18] = 106
    /\ regs[16] = 255

----------------------------------------------------------------------------
\* Steps of bring-up (checked under SpecMode).

\* The 2-bit encoding of a colour mode the claim gives.
C21_Enc(mode) ==
    CASE mode = "EightBit" -> 0
      [] mode = "SixteenBit" -> 1
      [] mode = "TwentyFourBit" -> 2

\* C21: in init every access of register 0x10 is a read-modify-write whose
\* written byte has bits 3..2 equal to the 2-bit encoding (00, 01, 10) of the
\* mode recorded on the handle and the other bits as read; register 0x5E is
\* first rewritten with bit 2 cleared and the other bits as read, then with
\* bits 1..0 equal to the same encoding and the other bits as read.
C21_InitColourFields ==
    op.name = "init" =>
        LET n == Len(trace)
            enc == C21_Enc(color_mode)
            at16 == {k \in 1..n : trace[k] = <<0, 16>>}
            at94 == {k \in 1..n : trace[k] = <<0, 94>>}
        IN  /\ \A k \in at16 \cup at94 :
                  /\ k + 1 <= n => trace[k + 1] = <<192, 0>>
                  /\ k + 2 <= n => trace[k + 2][1] = 128
            /\ \A k \in at16 :
                  k + 2 <= n => MainWindowField(trace[k + 2][2]) = enc
            /\ (n - 2 \in at16 /\ trace[n][1] = 128) =>
                  trace[n][2] = WithBits(v, 12, 4 * enc)
            /\ (n - 2 \in at94 /\ trace[n][1] = 128) =>
                  trace[n][2] = IF Cardinality(at94) = 1 THEN WithBits(v, 4, 0)
                                ELSE WithBits(v, 3, enc)
            /\ Cardinality(at94) <= 2
            /\ Cardinality(at16) <= 3
            /\ color_mode = op.mode0
            /\ res = "Ok" =>
                  /\ Cardinality(at16) = 3
                  /\ Cardinality(at94) = 2
                  /\ MainWindowField(regs[16]) = enc
                  /\ MemoryField(regs[94]) = enc
                  /\ Bit(regs[94], 2) = 0

C21_Witness ==
    /\ op.name = "init"
    /\ res = "Ok"
    /\ color_mode = "SixteenBit"
    /\ regs[16] = 247
    /\ regs[94] = 249

\* The registers PLL init writes, in the claim's order: the six PLL registers,
\* the latch register, the six PWM registers.
C22_Addrs == <<5, 7, 9, 6, 8, 10, 0, 133, 136, 138, 140, 142, 134>>

C22_Regs == {C22_Addrs[j] : j \in 1..13}

\* The frame that the claim puts at place j (1..26) of PLL init; -1 stands for
\* a data byte the claim does not give.
C22_Pattern ==
    [j \in 1..26 |->
        IF j % 2 = 1 THEN <<0, C22_Addrs[(j + 1) \div 2]>>
        ELSE IF j = 14 THEN <<128, 128>>
        ELSE <<128, -1>>]

Matches(f, pat) == f[1] = pat[1] /\ (pat[2] = -1 \/ f[2] = pat[2])

\* A delay of at least one millisecond was made after `at` frames.
Napped(at) == \E i \in 1..Len(naps) : naps[i][1] = at /\ naps[i][2] >= 1

\* C22: in init the registers 0x05, 0x07, 0x09, 0x06, 0x08, 0x0A are written in
\* that order, then comes the latch: the frame [0x00, 0x00], a delay, the frame
\* [0x80, 0x80], with nothing between them; the writes of 0x85, 0x88, 0x8A, 0x8C,
\* 0x8E, 0x86 come after the latch and a further delay, and nowhere else.
C22_PllLatch ==
    op.name = "init" =>
        LET n == Len(trace)
            firsts == {k \in 1..n : trace[k] = <<0, 5>>}
        IN  /\ Cardinality(firsts) <= 1
            /\ \A k \in 1..n :
                  (trace[k][1] = 0 /\ trace[k][2] \in C22_Regs) =>
                      \E s \in firsts : s <= k /\ k <= s + 25
            /\ \A s \in firsts :
                  /\ \A j \in 1..26 : s + j - 1 <= n => Matches(trace[s + j - 1], C22_Pattern[j])
                  /\ n >= s + 13 => Napped(s + 12)
                  /\ n >= s + 14 => Napped(s + 13)
            /\ res = "Ok" => firsts # {}

C22_Witness ==
    /\ op.name = "init"
    /\ res = "run"
    /\ Len(trace) = 31
    /\ trace[17] = <<0, 0>>
    /\ trace[18] = <<128, 128>>
    /\ trace[19] = <<0, 133>>
    /\ trace[31] = <<0, 224>>
    /\ naps = << <<1, 2>>, <<2, 2>>, <<3, 100>>, <<17, 1>>, <<18, 1>> >>

\* The ten frames the claim gives for the SDRAM writes; -1 stands for a data
\* byte the claim does not give.
C23_Pattern ==
    << <<0, 224>>, <<128, -1>>, <<0, 225>>, <<128, -1>>,
       <<0, 226>>, <<128, 476 % 256>>, <<0, 227>>, <<128, 476 \div 256>>,
       <<0, 228>>, <<128, 1>> >>

\* The frames from place a on are all status reads (and there is at least one).
OnlyStatusFrom(a) ==
    Len(trace) >= a /\ \A k \in a..Len(trace) : trace[k] = StatusFrame

\* C23: in init the registers 0xE0, 0xE1, 0xE2 (low byte of 476), 0xE3 (its high
\* byte) and 0xE4 = 0x01 are written in that order; then come status reads only,
\* until one has bit 0x04 set; the first frame of the interface configuration
\* comes right after that status read and no earlier.
C23_SdramReadyFirst ==
    /\ [](op.name = "init" =>
            LET n == Len(trace)
                firsts == {k \in 1..n : trace[k] = <<0, 224>>}
            IN  /\ Cardinality(firsts) <= 1
                /\ \A s \in firsts :
                      /\ \A j \in 1..10 :
                            s + j - 1 <= n => Matches(trace[s + j - 1], C23_Pattern[j])
                      /\ n >= s + 10 => trace[s + 10] = StatusFrame
                /\ res = "Ok" => firsts # {})
    /\ [][( /\ op.name = "init"
            /\ res = "run"
            /\ Len(trace') = Len(trace) + 1
            /\ \E s \in 1..Len(trace) : trace[s] = <<0, 224>> /\ OnlyStatusFrom(s + 10) ) =>
               /\ trace'[Len(trace')] = StatusFrame <=> Bit(rx[2], 2) = 0
               /\ trace'[Len(trace')] \in {StatusFrame, <<0, 1>>}]_vars

C23_Witness ==
    /\ op.name = "init"
    /\ res = "Ok"
    /\ trace[31] = <<0, 224>>
    /\ trace[36] = <<128, 220>>
    /\ trace[41] = StatusFrame
    /\ trace[42] = StatusFrame
    /\ trace[43] = <<0, 1>>

----------------------------------------------------------------------------
\* Geometry and timing registers (checked under SpecOps).

\* The two frames per byte of a 16-bit value written low byte first to the
\* registers a and a + 1.
RW16(a, x) == RW(a, x % 256) \o RW(a + 1, x \div 256)

\* C24: geometry config writes 0x14 = width / 8 - 1, 0x15 = width mod 8, 0x1A and
\* 0x1B = low and high byte of height - 1 (99, 0, 0xDF, 0x01 for 800 x 480); the
\* window and canvas widths in 0x24/0x25, 0x54/0x55 and 0x5A/0x5B are the pixel
\* count itself, low byte first.
C24_GeometryValues ==
    /\ op.name = "set_width_height" =>
          /\ IsPrefix(trace, RW(20, op.arg[1] \div 8 - 1) \o RW(21, op.arg[1] % 8)
                                 \o RW16(26, op.arg[2] - 1))
          /\ op.arg = <<800, 480>> =>
                IsPrefix(trace, RW(20, 99) \o RW(21, 0) \o RW(26, 223) \o RW(27, 1))
    /\ op.name = "main_image" =>
          IsPrefix(trace, RW16(32, 0) \o RW16(34, 0) \o RW16(36, op.arg[4])
                              \o RW16(38, 0) \o RW16(40, 0))
    /\ op.name = "canvas_image" =>
          IsPrefix(trace, RW16(80, 0) \o RW16(82, 0) \o RW16(84, op.arg[2]))
    /\ op.name = "active_window" =>
          IsPrefix(trace, RW16(86, 0) \o RW16(88, 0) \o RW16(90, op.arg[3])
                              \o RW16(92, op.arg[4]))
    /\ (op.name \in {"set_width_height", "main_image", "canvas_image", "active_window"}
          /\ res = "Ok") =>
          Len(trace) = CASE op.name = "set_width_height" -> 8
                         [] op.name = "main_image" -> 20
                         [] op.name = "canvas_image" -> 12
                         [] op.name = "active_window" -> 16

C24_Witness ==
    /\ op.name = "set_width_height"
    /\ op.arg = <<800, 480>>
    /\ res = "Ok"
    /\ trace = << <<0, 20>>, <<128, 99>>, <<0, 21>>, <<128, 0>>,
                  <<0, 26>>, <<128, 223>>, <<0, 27>>, <<128, 1>> >>

\* What the claim gives for a timing value: one less, stopping at 0.
C25_Sat(x) == IF x >= 1 THEN x - 1 ELSE 0

\* C25 (as claimed): for every 16-bit timing value the registers 0x16, 0x18 and
\* 0x19 receive (value / 8) - 1 saturating at 0, and the registers 0x1C/0x1D,
\* 0x1E and 0x1F receive value - 1 saturating at 0; none of the computations
\* wraps below zero or aborts.
C25_TimingSaturates ==
    /\ op.name \in {"set_horiz_non_display", "set_vert_non_display"} => res # "panic"
    /\ op.name = "set_horiz_non_display" =>
          (Len(trace) >= 2 => trace[2] = <<128, C25_Sat(op.arg[1] \div 8) % 256>>)
    /\ op.name = "set_horiz_start_pos" =>
          IsPrefix(trace, RW(24, C25_Sat(op.arg[1] \div 8) % 256))
    /\ op.name = "set_horiz_pulse_width" =>
          IsPrefix(trace, RW(25, C25_Sat(op.arg[1] \div 8) % 256))
    /\ op.name = "set_vert_non_display" =>
          IsPrefix(trace, RW16(28, C25_Sat(op.arg[1])))
    /\ op.name = "set_vert_start_pos" =>
          IsPrefix(trace, RW(30, C25_Sat(op.arg[1]) % 256))
    /\ op.name = "set_vert_pulse_width" =>
          IsPrefix(trace, RW(31, C25_Sat(op.arg[1]) % 256))

----------------------------------------------------------------------------
\* Colour packing of the 16-bit adapter (checked under SpecPack).

\* C26: for every Rgb565 colour the two bytes of a pixel are the low byte, then
\* the high byte, of (r << 11) | (g << 5) | b; what the 8-bit truncation of
\* g << 5 drops is exactly the part of g that the high byte carries; fill_solid
\* writes r << 3, g << 2, b << 3 to the foreground registers.
C26_Rgb565Packing ==
    LET c == op.arg[1]
        word == c.r * 2048 + c.g * 32 + c.b
    IN  /\ op.name = "pixel_bytes_16" =>
              /\ trace = << <<128, word % 256>>, <<128, word \div 256>> >>
              /\ trace[1][2] = c.b + ((c.g * 32) % 256)
              /\ trace[2][2] = (c.r * 8) + ((c.g * 32) \div 256)
        /\ op.name = "fill_bytes_16" =>
              trace = RW(210, c.r * 8) \o RW(211, c.g * 4) \o RW(212, c.b * 8)

C26_Witness ==
    /\ op.name = "pixel_bytes_16"
    /\ op.arg = <<[r |-> 21, g |-> 42, b |-> 11]>>
    /\ trace = << <<128, 75>>, <<128, 173>> >>

----------------------------------------------------------------------------
\* The chip-select scope (checked under SpecReg).

\* The transaction tried to drive chip-select high again.
TriedRestore(ev) == \E k \in 1..Len(ev) : ev[k] \in {"set_high", "set_high_err"}

\* C27: a transaction whose drive of chip-select low fails makes no transfer,
\* does not drive chip-select high, and returns the control-line fault; the
\* drive high is left out in that case only: a transaction whose transfer
\* failed still drives chip-select high.
C27_SelectLowFailure ==
    [][res = "run" =>
          /\ txn' # <<>>
          /\ txn'[1] = "set_low_err" =>
                /\ txn' = <<"set_low_err">>
                /\ res' = "Pin"
                /\ trace' = trace
                /\ cs' = cs
                /\ regs' = regs
                /\ sel' = sel
          /\ ~TriedRestore(txn') => txn'[1] = "set_low_err"
          /\ HasBusErr(txn') =>
                /\ TriedRestore(txn')
                /\ txn'[Len(txn')] = "set_high" => (cs' = "high" /\ res' = "SPI")]_vars

C27_Witness ==
    /\ op.name = "register_write"
    /\ res = "Pin"
    /\ txn = <<"set_low_err">>
    /\ Len(trace) = 1
    /\ cs = "high"

----------------------------------------------------------------------------
\* Two accessors of one chip (checked under SpecShared).

\* Both operations have returned Ok.
BothDone == op.name \in {"on", "color_bars"} /\ res = "Ok" /\ peer.res = "Ok" /\ peer.name # "none"

\* The bit of register 0x12 a function sets or clears, and the value it gives it.
C28_Bit(name) == IF name = "on" THEN 6 ELSE 5

C28_Wanted(arg) == IF arg[1] THEN 1 ELSE 0

\* An update is lost: after both operations the register does not carry both
\* bits as the two operations set them.
LostUpdate ==
    /\ BothDone
    /\ \/ Bit(regs[18], C28_Bit(op.name)) # C28_Wanted(op.arg)
       \/ Bit(regs[18], C28_Bit(peer.name)) # C28_Wanted(peer.arg)

\* The write frame of one operation fell between the read frame and the write
\* frame of the other.
WriteBetweenReadAndWrite ==
    /\ Len(peer.at) = 3
    /\ \/ peer.at[3] = 2
       \/ peer.at[2] <= 2 /\ peer.at[3] = 3

\* C28: an update of register 0x12 by on() or color_bars() is lost only when
\* the write frame of one accessor's read-modify-write falls between the read
\* and the write frame of the other's; when the two operations run one after
\* the other, both bits are as set.  (That a lost update is reachable is the
\* witness.)
C28_LostOnlyWhenInterleaved == LostUpdate => WriteBetweenReadAndWrite

C28_Witness ==
    /\ LostUpdate
    /\ op.name = "on"
    /\ op.arg = <<TRUE>>
    /\ peer.arg = <<TRUE>>
    /\ peer.at = <<0, 1, 2>>
    /\ regs[18] = 64

\* The transaction made a bus transfer.
Transferred(ev) == \E k \in 1..Len(ev) : ev[k] \in {"xfer", "xfer_err"}

\* The shapes of a transaction in which chip-select and the bus alternate: a
\* failed drive low alone, or drive low, one transfer, drive high.
C29_Shapes ==
    {<<"set_low_err">>}
        \cup {<<"set_low", x, h>> : x \in {"xfer", "xfer_err"}, h \in {"set_high", "set_high_err"}}

\* C29 (as claimed): every bus transfer happens while chip-select is low; every
\* interval in which chip-select is low holds exactly one transfer, of exactly
\* two bytes, so a transaction that makes a transfer starts with chip-select
\* high; and a transaction without control-line fault leaves chip-select high.
C29_SelectAndBusAlternate ==
    [][res = "run" =>
          /\ txn' \in C29_Shapes
          /\ Transferred(txn') =>
                /\ cs = "high"
                /\ Len(trace') = Len(trace) + 1
                /\ Len(trace'[Len(trace')]) = 2
          /\ ~HasPinErr(txn') => cs' = "high"]_vars

\* C30: set_color_mode(mode) that returns a fault leaves the mode recorded on
\* the handle as it was before the call, also when register 0x5E has already
\* been rewritten for the new mode; the recorded mode differs from the one
\* before the call only once the call has returned Ok, and is then the
\* requested mode.
C30_FaultKeepsRecordedMode ==
    op.name = "set_color_mode" =>
        /\ res # "Ok" => color_mode = op.mode0
        /\ color_mode # op.mode0 => res = "Ok" /\ color_mode = op.arg[1]
        /\ res = "Ok" => color_mode = op.arg[1]

\* A set_color_mode that wrote the new mode's field into register 0x5E and then
\* returned a fault from the main-window half.
C30_Witness ==
    /\ op.name = "set_color_mode"
    /\ res \in Faults
    /\ op.arg[1] # op.mode0
    /\ color_mode = op.mode0
    /\ Len(trace) > 3
    /\ trace[1] = <<TagCmd, 94>>
    /\ trace[3][1] = TagData
    /\ MemoryField(regs[94]) = MemoryBits(op.arg[1])
    /\ MemoryField(regs[94]) # MemoryBits(op.mode0)

----------------------------------------------------------------------------
\* The drawing adapters (checked under SpecDraw).

Adapters == {"Draw16", "Draw24"}

\* The colour depth an adapter stands for.
AdapterMode(w) == IF w = "Draw16" THEN "SixteenBit" ELSE "TwentyFourBit"

AdapterNew(w) == IF w = "Draw16" THEN "Draw16Bit_new" ELSE "Draw24Bit_new"

\* C31: while a 16-bit adapter exists the mode recorded on the wrapped handle
\* is SixteenBit, and while a 24-bit adapter exists it is TwentyFourBit; an
\* adapter comes into being only in the step in which its new returns Ok, with
\* set_color_mode to its depth done (no frame if the mode was already recorded,
\* else the six frames of the two read-modify-writes); and no step taken while
\* the adapter exists changes the recorded mode.
C31_AdapterKeepsMode ==
    /\ [](wrap \in Adapters => color_mode = AdapterMode(wrap))
    /\ [][(wrap' # wrap /\ wrap' \in Adapters) =>
              /\ wrap = "none"
              /\ op'.name = AdapterNew(wrap')
              /\ res' = "Ok"
              /\ color_mode' = AdapterMode(wrap')
              /\ Len(trace') = IF op'.mode0 = AdapterMode(wrap') THEN 0 ELSE 6]_vars
    /\ [][(wrap \in Adapters /\ wrap' = wrap) => color_mode' = color_mode]_vars

\* A fill through a 16-bit adapter made on a handle constructed in another
\* mode has met a fault after its first frames.
C31_Witness ==
    /\ wrap = "Draw16"
    /\ color_mode = "SixteenBit"
    /\ op.name = "fill_solid"
    /\ res \in Faults
    /\ Len(trace) > 6

----------------------------------------------------------------------------
\* Which fault a transaction reports (checked under SpecReg).

\* C32: a transaction whose bus transfer fails and whose drive high fails too
\* reports the control-line fault (Pin), not the bus fault; a bus fault (SPI) is
\* reported only by a transaction in which both drives of chip-select
\* succeeded; and a failed drive high is reported as Pin also when the transfer
\* itself succeeded.
C32_PinFaultWins ==
    [][res = "run" =>
          /\ txn' = <<"set_low", "xfer_err", "set_high_err">> => res' = "Pin"
          /\ res' = "SPI" => txn' = <<"set_low", "xfer_err", "set_high">>
          /\ txn' = <<"set_low", "xfer", "set_high_err">> => res' = "Pin"]_vars

\* A read whose transfer failed and whose drive high failed too returned Pin.
C32_Witness ==
    /\ op.name = "data_read"
    /\ txn = <<"set_low", "xfer_err", "set_high_err">>
    /\ res = "Pin"
    /\ trace = << <<192, 0>> >>

----------------------------------------------------------------------------
\* The coordinates of the hardware fill (checked under SpecDraw).

\* The bytes the data-write frames following a select of register a carry.
Written(a) ==
    {trace[k + 1][2] : k \in {j \in 1..(Len(trace) - 1) :
                                  trace[j] = <<TagCmd, a>> /\ trace[j + 1][1] = TagData}}

\* The 16-bit values written to the register pair (lo, hi).
Word(lo, hi) == {l + 256 * h : l \in Written(lo), h \in Written(hi)}

\* C33: whatever rectangle fill_solid is called with, the line-start
\* coordinates (x1, y1) it writes to 0x68..0x6B and the line-end coordinates
\* (x2, y2) it writes to 0x6C..0x6F satisfy 0 <= x1 <= x2 <= WIDTH-1 and
\* 0 <= y1 <= y2 <= HEIGHT-1; each register is written at most once, and a fill
\* that put frames on the bus and returned Ok has written all of them.
C33_FillClipped ==
    op.name = "fill_solid" =>
        LET X1 == Word(104, 105)
            Y1 == Word(106, 107)
            X2 == Word(108, 109)
            Y2 == Word(110, 111)
        IN  /\ \A a \in 104..111 : Cardinality(Written(a)) <= 1
            /\ \A x1 \in X1 : 0 <= x1 /\ x1 <= WIDTH - 1
            /\ \A y1 \in Y1 : 0 <= y1 /\ y1 <= HEIGHT - 1
            /\ \A x2 \in X2 : x2 <= WIDTH - 1 /\ \A x1 \in X1 : x1 <= x2
            /\ \A y2 \in Y2 : y2 <= HEIGHT - 1 /\ \A y1 \in Y1 : y1 <= y2
            /\ (res = "Ok" /\ trace # <<>>) =>
                  X1 # {} /\ Y1 # {} /\ X2 # {} /\ Y2 # {}

\* A completed fill of a rectangle with negative origin that reaches into the
\* panel: (0, 0) to (6, 6) was written.
C33_Witness ==
    /\ op.name = "fill_solid"
    /\ op.arg[1] = Rect(-3, -3, 10, 10)
    /\ res = "Ok"
    /\ Word(104, 105) = {0}
    /\ Word(106, 107) = {0}
    /\ Word(108, 109) = {6}
    /\ Word(110, 111) = {6}

\* A completed fill of a rectangle that sticks out of the panel at the bottom
\* right: it ends at (WIDTH-1, HEIGHT-1).
C33_WitnessFarCorner ==
    /\ op.name = "fill_solid"
    /\ op.arg[1] = Rect(470, 260, 20, 20)
    /\ res = "Ok"
    /\ Word(104, 105) = {470}
    /\ Word(108, 109) = {WIDTH - 1}
    /\ Word(110, 111) = {HEIGHT - 1}

====
